---- MODULE Spec2Model ----
(***************************************************************************)
(* A model of the agent core of the browser-automation extension:          *)
(*   - BaseAgent.invoke and PlannerAgent.execute over the token ledger     *)
(*     (TokenUsageManager), as overlapping asynchronous calls;             *)
(*   - the enhanced dropdown handler (select and option waiting);          *)
(*   - the AG-UI tool action handler.                                      *)
(* Every asynchronous function is cut at its awaits: one action per        *)
(* continuation.                                                           *)
(***************************************************************************)
EXTENDS Integers, Sequences, FiniteSets, TLC

(***************************************************************************)
(* Bounds of the model.                                                    *)
(***************************************************************************)
\* number of execute() calls that may be started (and may overlap)
MaxCalls == 2
\* number of month boundaries the clock may cross
MaxNow == 1
\* the ledger starts with at most this many tokens left of the monthly limit
MaxHeadroom == 4
\* a dropdown has at most this many options
MaxOptions == 3
\* the clock of the option wait advances in steps of this many milliseconds
TickMs == 100
\* the longest non-default timeout a waitForDropdownOptions call is given
MaxShortTimeoutMs == 300
\* the page's element map holds indices 0..MaxIndex
MaxIndex == 2
\* the page records at most this many clicks, inputs, scrolls and screenshots
MaxEffects == 1
\* select actions that may overlap
MaxSelects == 2
\* browser tabs (ids 1..MaxTabs)
MaxTabs == 2
\* the message manager holds at most this many messages
MaxHistory == 3
\* the validator is given at most this many tasks (the first and its follow-ups)
MaxTasks == 3
\* the bridge draws at most this many ids from nanoid()
MaxIds == 3
\* user messages sent from the panel
MaxUserMessages == 3
\* direct calls of the ledger's operations that may overlap
MaxLedgerOps == 2
\* events that arrive at the side panel's event bus
MaxArrivals == 1002
\* AG-UI events delivered to the chat panel
MaxPanelEvents == 4
\* calls of the favorite prompts storage, each of which may overlap the others
MaxPromptCalls == 3
\* the prompt ids the callers pass
MaxPromptId == 2
\* calls of the general settings store in progress at once
MaxSettingsCalls == 2
\* startObserving calls, which may overlap
MaxStarts == 3

(***************************************************************************)
(* Program constants.                                                      *)
(***************************************************************************)
FREE_TIER_LIMIT == 50
\* waitForDropdownOptions: the default timeout and the polling interval
DEFAULT_TIMEOUT_MS == 3000
POLL_INTERVAL_MS == 200
\* DEFAULT_GENERAL_SETTINGS: maxSteps, maxFailures, planningInterval
DEFAULT_MAX_STEPS == 100
DEFAULT_MAX_FAILURES == 3
DEFAULT_PLANNING_INTERVAL == 3
\* EventBus.addEvent keeps the last 1000 events
MAX_EVENTS == 1000

VARIABLES
    tokenUsage,   \* tokenUsageStorage: the stored TokenUsage record
    now,          \* the wall clock, in months
    aborted,      \* context.controller.signal.aborted
    call,         \* per execute() call: its position and what it has done
    page,         \* the tab's document: the dropdown element and its options
    sel,          \* the selectEnhancedDropdownOption call
    clock,        \* Date.now(), in milliseconds
    wait,         \* the waitForDropdownOptions call
    dom,          \* the current page of the browser context: element map, effects
    tool,         \* the handleToolAction call
    callbacks,    \* domMutationObserver.callbacks: the subscribed change handlers
    acts,         \* the overlapping selectEnhancedDropdownOption calls
    history,      \* messageManager.getMessages(): the message history
    visionOptions,\* context.options: useVision, useVisionForPlanner
    sent,         \* the messages PlannerAgent.execute passes to invoke
    tasks,        \* ValidatorPrompt.tasks
    language,     \* ValidatorPrompt.language
    validatorMessage,\* the last system message getSystemMessage built
    bridge,       \* LegacyToAGUIEventBridge: currentMessageId, currentRunId (0: null)
    nextId,       \* the next id nanoid() returns
    converted,    \* the last convertEvent call: the legacy event and the events returned
    openMessages, \* the ids of the text messages started and not ended
    run,          \* the task run of the Executor: state, step index, failure count, plan
    port,         \* EventBus.port: null, or a Port that is open or has disconnected
    reconnectTimer,\* the setTimeout(() => this.setupConnection(), 1000) is pending
    outbox,       \* the user messages sent: the port when sent, the transports used
    usedAtStart,  \* the used count of the ledger before any call
    ops,          \* the calls of hasTokens, consumeTokens, getTokenUsage, resetTokens in progress
    events,       \* EventBus.events: the buffer of AG-UI events
    listeners,    \* EventBus.listeners, in insertion order
    listenerCalls,\* the listener calls of the last notifyListeners: the listener, the events passed
    arrived,      \* the number of events added to the bus
    panelEvents,  \* the events state of useEventBus: the last array passed to setEvents
    effectPending,\* the events state has changed since the effects last ran
    agentMessages,\* AgentChat: the messages state
    chatMessages, \* ChatPanel: the messages state
    favorites,    \* favoritesStorage: the stored FavoritesStorage record (the id counter, the prompts)
    promptCalls,  \* the calls of the favorite prompts storage in progress
    mayOverlap,   \* the callers make a call while another is in progress
    storedSettings,\* the general settings storage: the stored GeneralSettingsConfig
    settingsCalls,\* the calls of generalSettingsStore in progress
    isObservingTab,\* DOMutationObserver.isObservingTab (0: null)
    injected,     \* the tabs whose page holds the injected mutation observer
    startCalls    \* the startObserving calls

invokeVars == <<tokenUsage, now, aborted, call>>

dropdownVars == <<page, sel>>

waitVars == <<clock, wait>>

toolVars == <<dom, tool>>

observerVars == <<callbacks, acts>>

messageVars == <<history, visionOptions, sent>>

validatorVars == <<tasks, language, validatorMessage>>

bridgeVars == <<bridge, nextId, converted, openMessages>>

executorVars == <<run>>

connectionVars == <<port, reconnectTimer, outbox>>

ledgerStartVars == <<usedAtStart>>

ledgerVars == <<ops>>

busVars == <<events, listeners, listenerCalls, arrived>>

panelVars == <<panelEvents, effectPending, agentMessages, chatMessages>>

favoritesVars == <<favorites, promptCalls, mayOverlap>>

settingsVars == <<storedSettings, settingsCalls>>

injectionVars == <<isObservingTab, injected, startCalls>>

vars == <<tokenUsage, now, aborted, call, page, sel, clock, wait, dom, tool, callbacks, acts, history, visionOptions, sent, tasks, language, validatorMessage, bridge, nextId, converted, openMessages, run, port, reconnectTimer, outbox, usedAtStart, ops, events, listeners, listenerCalls, arrived, panelEvents, effectPending, agentMessages, chatMessages, favorites, promptCalls, mayOverlap, storedSettings, settingsCalls, isObservingTab, injected, startCalls>>

Calls == 1..MaxCalls

(***************************************************************************)
(* Agents. Two PlannerAgent instances, one per chat model; the model name   *)
(* decides the parsing path (setWithStructuredOutput) and the token cost.  *)
(***************************************************************************)
Agents == {"plannerA", "plannerB"}

GetModelName(a) == IF a = "plannerA" THEN "gpt-4o" ELSE "deepseek-r1"

\* The model names of setWithStructuredOutput's substring tests, on the
\* names the model uses.
SetWithStructuredOutput(modelName) ==
    IF modelName \in {"deepseek-reasoner", "deepseek-r1"} THEN FALSE
    ELSE IF modelName = "openai/gpt-4o-mini" THEN FALSE
    ELSE TRUE

\* DEFAULT_TOKEN_COSTS (settings/types): a table from model name to cost.
DEFAULT_TOKEN_COSTS == [m \in {"gpt-4o"} |-> 3]

GetTokenCost(modelName) ==
    IF modelName \in DOMAIN DEFAULT_TOKEN_COSTS /\ DEFAULT_TOKEN_COSTS[modelName] # 0
    THEN DEFAULT_TOKEN_COSTS[modelName]
    ELSE 1

(***************************************************************************)
(* Errors. An error carries its class name and what its message tells:     *)
(* wrapping an error in a new Error keeps the text of the original         *)
(* (`${error}`) and loses its class.                                       *)
(***************************************************************************)
NoError == [name |-> "none", text |-> "none"]

AbortError == [name |-> "AbortError", text |-> "aborted"]
AuthenticationError == [name |-> "AuthenticationError", text |-> "authentication"]
ForbiddenError == [name |-> "ForbiddenError", text |-> "forbidden"]
ProviderError == [name |-> "Error", text |-> "provider"]
InsufficientTokensError == [name |-> "Error", text |-> "insufficient tokens"]
StructuredParseError == [name |-> "Error", text |-> "could not parse structured"]
JSONExtractionError == [name |-> "Error", text |-> "failed to extract json"]
ParseResponseError == [name |-> "Error", text |-> "could not parse response"]

\* new Error(`... : ${error}`)
WrapErrorDropText(e) == [name |-> "Error", text |-> "wrapped"]

WrapError(e) == [name |-> "Error", text |-> e.text]

\* errors.ts: the classifiers used by invoke and execute.
isAbortedError(e) == e.name = "AbortError" \/ e.text = "aborted"

isAuthenticationError(e) == e.name = "AuthenticationError" \/ e.text = "authentication"

isForbiddenError(e) == e.name = "ForbiddenError" \/ e.text = "forbidden"

(***************************************************************************)
(* The token ledger (TokenUsageManager).                                   *)
(***************************************************************************)
NoUsage == [used |-> 0, limit |-> 0, resetDate |-> 0]

\* the record getTokenUsage writes at the start of a new month: the reset
\* date moves to the first day of the month after `n`
ResetUsage(n) == [used |-> 0, limit |-> FREE_TIER_LIMIT, resetDate |-> n + 1]

\* getTokenUsage's test `now >= resetDate`
NeedsReset(u, n) == n >= u.resetDate

\* hasTokens' result on the usage it read
HasTokensOffByOne(u, cost) == u.used + cost < u.limit

HasTokens(u, cost) == u.used + cost <= u.limit

\* consumeTokens' updated record
UpdatedUsage(u, cost) == [u EXCEPT !.used = u.used + cost]

(***************************************************************************)
(* What the chat model may answer. A structured call answers with the raw  *)
(* and parsed pair (parsed may be null); a freeform call answers with a    *)
(* content that holds valid JSON, JSON that extractJsonFromModelOutput or  *)
(* the schema rejects, no JSON at all, or that is not a string. Either     *)
(* call may fail with a provider error, and fails with the abort error     *)
(* once the signal is aborted.                                             *)
(***************************************************************************)
StructuredOutcomes == {"parsed", "unparsed"}

FreeformOutcomes == {"json_ok", "extract_throws", "validate_throws", "no_json", "not_string"}

ProviderErrors == {AuthenticationError, ForbiddenError, ProviderError}

\* the parsing path the agent's configuration selects
ParsingPath(structured) == IF structured THEN "structured" ELSE "freeform"

\* the branches of invoke that return the parsed output
ReturnsParsed(structured, outcome) ==
    IF structured THEN outcome = "parsed" ELSE outcome = "json_ok"

\* the branches of invoke that call TokenUsageManager.consumeTokens
ConsumesTokensStructuredOnly(structured, outcome) ==
    structured /\ outcome = "parsed"

ConsumesTokens(structured, outcome) ==
    IF structured THEN outcome = "parsed" ELSE outcome = "json_ok"

\* the error thrown inside invoke's try block for a response that does not parse
ParseFailure(structured, outcome) ==
    IF structured THEN StructuredParseError
    ELSE IF outcome \in {"extract_throws", "validate_throws"} THEN JSONExtractionError
    ELSE ParseResponseError

\* invoke's outer catch: what it throws for an error caught in the try block
InvokeCatch(structured, e) ==
    IF isAbortedError(e) THEN e
    ELSE IF structured THEN WrapError(e)
    ELSE e

(***************************************************************************)
(* PlannerAgent.execute's catch block: the exception class it throws, or   *)
(* "error" when it emits STEP_FAIL and returns {id, error}.                *)
(***************************************************************************)
PlannerCatchNoAbort(e) ==
    IF isAuthenticationError(e) THEN "ChatModelAuthError"
    ELSE IF isForbiddenError(e) THEN "ChatModelForbiddenError"
    ELSE "error"

PlannerCatch(e) ==
    IF isAuthenticationError(e) THEN "ChatModelAuthError"
    ELSE IF isForbiddenError(e) THEN "ChatModelForbiddenError"
    ELSE IF isAbortedError(e) THEN "RequestCancelledError"
    ELSE "error"

(***************************************************************************)
(* One execute() call.                                                     *)
(*   pc      idle, gtu_get (awaiting storage.get in getTokenUsage),        *)
(*           gtu_set (awaiting storage.set of the monthly reset), model    *)
(*           (awaiting the chat model), consume_set (awaiting storage.set  *)
(*           in consumeTokens), done                                       *)
(*   ret     the caller of getTokenUsage: has (hasTokens), rem             *)
(*           (getRemainingTokens), consume (consumeTokens)                 *)
(*   usage   the TokenUsage record the call holds across an await          *)
(*   hadTokens  whether the usage hasTokens read covered the cost          *)
(* and the record of what the call did: model calls issued, consumeTokens  *)
(* calls, parsing paths used, the error the chat model call rejected with, *)
(* whether invoke returned or threw and the error it threw, how execute    *)
(* ended (result: {id, result}; error: {id, error}; or the exception),     *)
(* the events it emitted, whether the signal fired during its model call,  *)
(* whether the signal was already set when execute was called.             *)
(***************************************************************************)
IdleCall ==
    [pc |-> "idle", ret |-> "none", agent |-> "none", usage |-> NoUsage,
     hadTokens |-> "unknown", modelCalls |-> 0, consumeCalls |-> 0,
     paths |-> {}, modelError |-> NoError, invoke |-> "none", error |-> NoError,
     result |-> "none",
     events |-> <<>>, cancelledInFlight |-> FALSE, startedAborted |-> FALSE]

Structured(r) == SetWithStructuredOutput(GetModelName(r.agent))

Cost(r) == GetTokenCost(GetModelName(r.agent))

\* invoke returned the parsed output: execute emits STEP_OK and returns {id, result}
ExecuteOk(r) ==
    [r EXCEPT !.pc = "done", !.ret = "none", !.usage = NoUsage,
              !.invoke = "returned", !.result = "result",
              !.events = Append(@, "STEP_OK")]

\* invoke threw e: execute's catch block
ExecuteFail(r, e) ==
    LET k == PlannerCatch(e) IN
    [r EXCEPT !.pc = "done", !.ret = "none", !.usage = NoUsage,
              !.invoke = "threw", !.error = e, !.result = k,
              !.events = IF k = "error" THEN Append(@, "STEP_FAIL") ELSE @]

\* a response that does not parse: a fallback would issue the call again on the other path
InvokeParseFailureWithFallback(r, outcome) ==
    IF Cardinality(r.paths) = 1
    THEN [r EXCEPT !.pc = "model", !.modelCalls = @ + 1,
                   !.paths = {"structured", "freeform"}]
    ELSE ExecuteFail(r, InvokeCatch(Structured(r), ParseFailure(Structured(r), outcome)))

\* a response that does not parse: the error goes through invoke's catch to execute
InvokeParseFailure(r, outcome) ==
    ExecuteFail(r, InvokeCatch(Structured(r), ParseFailure(Structured(r), outcome)))

\* whether a usage record leaves room for a cost (recorded per call)
Covers(u, cost) == IF u.used + cost <= u.limit THEN "yes" ELSE "no"

\* the continuation of `await this.getTokenUsage()` with the usage u it returned
AfterGetTokenUsage(r, u) ==
    CASE r.ret = "has" ->
           IF HasTokens(u, Cost(r))
           THEN \* the chat model is called
                [r EXCEPT !.pc = "model", !.ret = "none", !.usage = NoUsage,
                          !.hadTokens = Covers(u, Cost(r)),
                          !.modelCalls = @ + 1,
                          !.paths = @ \cup {ParsingPath(Structured(r))}]
           ELSE \* getRemainingTokens reads the ledger again for the message
                [r EXCEPT !.pc = "gtu_get", !.ret = "rem", !.usage = NoUsage,
                          !.hadTokens = Covers(u, Cost(r))]
      [] r.ret = "rem" ->
           ExecuteFail(r, InsufficientTokensError)
      [] r.ret = "consume" ->
           IF u.used + Cost(r) > u.limit
           THEN \* {success: false}: nothing is written, invoke returns the output
                ExecuteOk(r)
           ELSE [r EXCEPT !.pc = "consume_set", !.ret = "none",
                          !.usage = UpdatedUsage(u, Cost(r))]

(***************************************************************************)
(* The enhanced dropdown handler (enhanced-dropdown.ts).                   *)
(*                                                                         *)
(* The document holds one dropdown element (or none under the mmid asked   *)
(* for) with its option elements in document order. An option has its      *)
(* text content (trimmed), its value and its mmid; mmids are numerals, so  *)
(* an option's text may read like the mmid of another option.              *)
(***************************************************************************)
ElementKinds == {"select", "ul", "div_listbox", "div_combobox", "div_dropdown"}

OptionTexts == {"Tokyo", "Osaka", "3"}

OptionValues == {"v1", "v2"}

\* the numerals used as mmids of the option elements, by position
Numeral == <<"2", "3", "4", "5", "6", "7", "8", "9">>

OptionMMID(i) == Numeral[i]

\* /^\d+$/.test(identifier)
LooksLikeMMID(t) == \E i \in DOMAIN Numeral : Numeral[i] = t

OptionLists ==
    UNION {[1..n -> [text : OptionTexts, value : OptionValues]] : n \in 0..MaxOptions}

\* optionIdentifier: string | number. A string is an option's text (or
\* mmid), a number a zero-based position.
TextIdentifier(t) == [isNumber |-> FALSE, text |-> t, index |-> 0]

IndexIdentifier(n) == [isNumber |-> TRUE, text |-> "", index |-> n]

Identifiers ==
    {TextIdentifier(t) : t \in OptionTexts \cup {"Kyoto"}}
        \cup {IndexIdentifier(n) : n \in 0..MaxOptions + 2}

\* typeof identifier === 'number'
IsNumber(identifier) == identifier.isNumber

\* getEnhancedDropdownInfo: the dropdown type from the element's tag and role
DropdownType(kind) ==
    IF kind = "select" THEN "select"
    ELSE IF kind \in {"div_listbox", "ul"} THEN "listbox"
    ELSE IF kind = "div_combobox" THEN "combobox"
    ELSE "custom"

\* HTMLSelectElement: the value of a select is the value of its first
\* selected option; a single select with options shows its first option
FirstWithValue(options, v) ==
    IF \E i \in DOMAIN options : options[i].value = v
    THEN CHOOSE i \in DOMAIN options :
            /\ options[i].value = v
            /\ \A j \in DOMAIN options : options[j].value = v => i <= j
    ELSE 0

\* the first position (1-based) that satisfies P, or 0
FirstWithText(options, t) ==
    IF \E i \in DOMAIN options : options[i].text = t
    THEN CHOOSE i \in DOMAIN options :
            /\ options[i].text = t
            /\ \A j \in DOMAIN options : options[j].text = t => i <= j
    ELSE 0

NoPage == [present |-> FALSE, kind |-> "select", options |-> <<>>, selected |-> 0,
           hasInput |-> FALSE, inputValue |-> "", events |-> <<>>]

\* the value the dropdown shows: the selected option's value ("" when none)
DropdownValue(pg) == IF pg.selected = 0 THEN "" ELSE pg.options[pg.selected].value

\* the documents a select action may meet: no element under the mmid, or a
\* dropdown of any kind with any options (a combobox with or without an
\* input element)
Pages ==
    {NoPage} \cup
    {[present |-> TRUE, kind |-> k, options |-> os,
      selected |-> IF k = "select" /\ Len(os) > 0 THEN 1 ELSE 0,
      hasInput |-> hi, inputValue |-> "", events |-> <<>>] :
        k \in ElementKinds, os \in OptionLists,
        hi \in {FALSE}} \cup
    {[present |-> TRUE, kind |-> "div_combobox", options |-> os, selected |-> 0,
      hasInput |-> TRUE, inputValue |-> "", events |-> <<>>] : os \in OptionLists}

\* results of the page script (the strings it returns)
NotFoundResult(identifier, listed, texts) ==
    [kind |-> "notFound", option |-> 0, listed |-> listed, texts |-> texts]

SelectedResult(i) == [kind |-> "selected", option |-> i, listed |-> FALSE, texts |-> <<>>]

NoResult == [kind |-> "none", option |-> 0, listed |-> FALSE, texts |-> <<>>]

MissingDropdownResult == [kind |-> "noDropdown", option |-> 0, listed |-> FALSE, texts |-> <<>>]

\* native select: the target option for an identifier (0: none)
NativeTarget(options, identifier) ==
    IF IsNumber(identifier)
    THEN IF identifier.index + 1 \in DOMAIN options THEN identifier.index + 1 ELSE 0
    ELSE FirstWithText(options, identifier.text)

\* listbox, combobox, custom: the option element for an identifier (0: none)
WidgetTarget(options, identifier) ==
    IF IsNumber(identifier)
    THEN IF identifier.index < Len(options) THEN identifier.index + 1 ELSE 0
    ELSE LET byMMID == IF LooksLikeMMID(identifier.text)
                       THEN IF \E i \in DOMAIN options : OptionMMID(i) = identifier.text
                            THEN CHOOSE i \in DOMAIN options : OptionMMID(i) = identifier.text
                            ELSE 0
                       ELSE 0
         IN IF byMMID # 0 THEN byMMID ELSE FirstWithText(options, identifier.text)

\* the page script on a native select: the page after it, and its result
NativeSelect(pg, identifier) ==
    LET t == NativeTarget(pg.options, identifier) IN
    IF t = 0
    THEN [page |-> pg,
          result |-> NotFoundResult(identifier, TRUE,
                                    [i \in DOMAIN pg.options |-> pg.options[i].text])]
    ELSE [page |-> [pg EXCEPT !.selected = FirstWithValue(pg.options, pg.options[t].value),
                              !.events = IF DropdownValue(pg) # pg.options[t].value
                                         THEN @ \o <<"change", "input">> ELSE @],
          result |-> SelectedResult(t)]

\* the page script on a listbox, combobox or custom dropdown; the widget
\* takes the clicked option as its selection
WidgetSelect(pg, dropdownType, identifier) ==
    LET t == WidgetTarget(pg.options, identifier) IN
    IF t = 0
    THEN [page |-> pg, result |-> NotFoundResult(identifier, FALSE, <<>>)]
    ELSE [page |-> [pg EXCEPT
                      !.selected = t,
                      !.inputValue = IF dropdownType = "combobox" /\ pg.hasInput
                                     THEN pg.options[t].text ELSE @,
                      !.events = IF dropdownType = "combobox" /\ pg.hasInput
                                 THEN @ \o <<"click", "change", "input">>
                                 ELSE Append(@, "click")],
          result |-> SelectedResult(t)]

\* the function injected by selectEnhancedDropdownOption
SelectScript(pg, dropdownType, identifier) ==
    IF ~pg.present THEN [page |-> pg, result |-> MissingDropdownResult]
    ELSE IF dropdownType = "select" THEN NativeSelect(pg, identifier)
    ELSE WidgetSelect(pg, dropdownType, identifier)

(***************************************************************************)
(* One selectEnhancedDropdownOption call.                                  *)
(*   pc       idle, info (awaiting getEnhancedDropdownInfo), script        *)
(*            (awaiting executeScript), wait (the 100 ms timer), done      *)
(*   settled  resolved (the call returned its string) or rejected (threw)  *)
(***************************************************************************)
IdleSelect ==
    [pc |-> "idle", identifier |-> IndexIdentifier(0), type |-> "none", subscribed |-> FALSE,
     domChangesDetected |-> FALSE, result |-> NoResult, advisory |-> FALSE,
     settled |-> "none", before |-> NoPage]

(***************************************************************************)
(* One waitForDropdownOptions call.                                        *)
(*   polling  a checkOptions run is awaiting getEnhancedDropdownInfo       *)
(*   timer    the time the pending setTimeout(checkOptions, 200) is due,   *)
(*            or -1 when no timer is pending                               *)
(*   settles  how many times resolve or reject has been called             *)
(*   outcome  resolved, timeout (rejected with the timeout error), error   *)
(*            (rejected with getEnhancedDropdownInfo's error)              *)
(***************************************************************************)
IdleWait ==
    [started |-> FALSE, polling |-> FALSE, timer |-> -1, startTime |-> 0,
     timeout |-> 0, polls |-> 0, settles |-> 0, outcome |-> "none",
     options |-> <<>>, settledAt |-> 0]

Timeouts == {0, MaxShortTimeoutMs, DEFAULT_TIMEOUT_MS}

\* the clock stops once every timer the longest wait can set has come due
MaxClockMs == DEFAULT_TIMEOUT_MS + POLL_INTERVAL_MS + MaxShortTimeoutMs + TickMs

\* one run of checkOptions on what getEnhancedDropdownInfo found: how the
\* promise is settled (none: not settled), and whether the next run is scheduled
CheckOptionsNoReturn(present, options, elapsed, timeout) ==
    IF ~present THEN [settle |-> "error", again |-> FALSE]
    ELSE IF Len(options) > 0 THEN [settle |-> "resolved", again |-> ~(elapsed > timeout)]
    ELSE IF elapsed > timeout THEN [settle |-> "timeout", again |-> FALSE]
    ELSE [settle |-> "none", again |-> TRUE]

CheckOptions(present, options, elapsed, timeout) ==
    IF ~present THEN [settle |-> "error", again |-> FALSE]
    ELSE IF Len(options) > 0 THEN [settle |-> "resolved", again |-> FALSE]
    ELSE IF elapsed > timeout THEN [settle |-> "timeout", again |-> FALSE]
    ELSE [settle |-> "none", again |-> TRUE]

(***************************************************************************)
(* AG-UI tool actions (AGUIToolActionHandler).                             *)
(***************************************************************************)
ToolNamesWithHover == {"dom.click", "dom.fill", "dom.scroll", "dom.screenshot", "dom.hover"}

\* the cases of the switch in handleToolAction
ToolNames == {"dom.click", "dom.fill", "dom.scroll", "dom.screenshot"}

ActionNames == ToolNames \cup {"dom.hover"}

ActionIds == {"a1", "a2"}

\* an action as the handler receives it; an argument that is undefined has
\* its has-flag FALSE (and a fixed filler value)
ClickActions ==
    {[name |-> "dom.click", id |-> i, hasIndex |-> TRUE, index |-> n,
      hasValue |-> FALSE, value |-> "", direction |-> ""] :
        i \in ActionIds, n \in 0..(MaxIndex + 1)} \cup
    {[name |-> "dom.click", id |-> i, hasIndex |-> FALSE, index |-> 0,
      hasValue |-> FALSE, value |-> "", direction |-> ""] : i \in ActionIds}

FillActions ==
    {[name |-> "dom.fill", id |-> i, hasIndex |-> TRUE, index |-> n,
      hasValue |-> hv, value |-> IF hv THEN "hello" ELSE "", direction |-> ""] :
        i \in ActionIds, n \in 0..(MaxIndex + 1), hv \in BOOLEAN} \cup
    {[name |-> "dom.fill", id |-> i, hasIndex |-> FALSE, index |-> 0,
      hasValue |-> TRUE, value |-> "hello", direction |-> ""] : i \in ActionIds}

\* direction "" is undefined: the destructuring default makes it 'down'
OtherActions ==
    {[name |-> nm, id |-> i, hasIndex |-> FALSE, index |-> 0,
      hasValue |-> FALSE, value |-> "", direction |-> d] :
        nm \in {"dom.scroll"}, i \in ActionIds, d \in {"", "up", "down", "left"}} \cup
    {[name |-> nm, id |-> i, hasIndex |-> FALSE, index |-> 0,
      hasValue |-> FALSE, value |-> "", direction |-> ""] :
        nm \in {"dom.screenshot", "dom.hover"}, i \in ActionIds}

ToolActions == ClickActions \cup FillActions \cup OtherActions

NoToolAction ==
    [name |-> "", id |-> "", hasIndex |-> FALSE, index |-> 0,
     hasValue |-> FALSE, value |-> "", direction |-> ""]

NoToolResult == [id |-> "", status |-> "none", message |-> ""]

ToolError(action, message) == [id |-> action.id, status |-> "error", message |-> message]

ToolSuccess(action, message) == [id |-> action.id, status |-> "success", message |-> message]

\* the current page: the indices of its element map, and what has been done
\* to it
NoDom == [elementMap |-> {}, effects |-> <<>>]

Doms == {[elementMap |-> m, effects |-> <<>>] : m \in SUBSET (0..MaxIndex)}

\* page.getDomElementByIndex(index): the element node, or nothing
GetDomElementByIndex(elementMap, index) ==
    IF index \in elementMap THEN [found |-> TRUE, index |-> index]
    ELSE [found |-> FALSE, index |-> 0]

\* the checks handleDomClick and handleDomFill make before they call the
\* page: the message of the error they throw ("" when they go on)
ArgumentCheck(action) ==
    IF action.name = "dom.click" /\ ~action.hasIndex
    THEN "Element index must be provided"
    ELSE IF action.name = "dom.fill" /\ (~action.hasIndex \/ ~action.hasValue)
    THEN "Both element index and value must be provided"
    ELSE ""

ElementCheckSkipped(elementNode) == ""

\* if (!elementNode) throw
ElementCheck(elementNode) ==
    IF ~elementNode.found THEN "Element with index not found" ELSE ""

Direction(action) == IF action.direction = "" THEN "down" ELSE action.direction

\* what the page is asked to do once the checks have passed
PageEffect(action) ==
    IF action.name = "dom.click" THEN [kind |-> "click", index |-> action.index, value |-> ""]
    ELSE IF action.name = "dom.fill"
    THEN [kind |-> "input", index |-> action.index, value |-> action.value]
    ELSE IF action.name = "dom.scroll"
    THEN [kind |-> "scroll", index |-> 0, value |-> Direction(action)]
    ELSE [kind |-> "screenshot", index |-> 0, value |-> ""]

SuccessMessage(action) ==
    IF action.name = "dom.click" THEN "Clicked element"
    ELSE IF action.name = "dom.fill" THEN "Filled element"
    ELSE IF action.name = "dom.scroll" THEN "Scrolled"
    ELSE "Screenshot captured"

(***************************************************************************)
(* One handleToolAction call.                                              *)
(*   pc       idle, page (awaiting getCurrentPage), act (awaiting the      *)
(*            page's click, input, scroll or screenshot), done             *)
(*   before   the page's effects when the call started                     *)
(*   lookedUp getDomElementByIndex was called                              *)
(*   threw    the promise handleToolAction returned was rejected           *)
(***************************************************************************)
IdleTool ==
    [pc |-> "idle", action |-> NoToolAction, result |-> NoToolResult,
     before |-> <<>>, lookedUp |-> FALSE, threw |-> FALSE]

(***************************************************************************)
(* The DOM mutation observer service and the select actions that use it.   *)
(* A change handler is the closure of one call: it is named by its call.   *)
(***************************************************************************)
SelectCalls == 1..MaxSelects

Tabs == 1..MaxTabs

\* DOMutationObserver.subscribe
Subscribe(cbs, callback) == Append(cbs, callback)

\* callbacks.indexOf(callback): 0 when absent
IndexOf(cbs, callback) ==
    IF \E i \in DOMAIN cbs : cbs[i] = callback
    THEN CHOOSE i \in DOMAIN cbs : cbs[i] = callback /\ \A j \in 1..(i - 1) : cbs[j] # callback
    ELSE 0

UnsubscribeLast(cbs, callback) ==
    IF Len(cbs) > 0 THEN SubSeq(cbs, 1, Len(cbs) - 1) ELSE cbs

\* DOMutationObserver.unsubscribe
Unsubscribe(cbs, callback) ==
    LET index == IndexOf(cbs, callback) IN
    IF index > 0
    THEN SubSeq(cbs, 1, index - 1) \o SubSeq(cbs, index + 1, Len(cbs))
    ELSE cbs

\* runtime messages the background receives: the type, the sender's tab (a
\* sender that is not a tab has hasTab FALSE), and the number of changes
Messages ==
    {[type |-> "DOM_CHANGES_DETECTED", hasTab |-> TRUE, tab |-> t, changes |-> 1] : t \in Tabs} \cup
    {[type |-> "DOM_CHANGES_DETECTED", hasTab |-> TRUE, tab |-> 1, changes |-> 0],
     [type |-> "DOM_CHANGES_DETECTED", hasTab |-> FALSE, tab |-> 0, changes |-> 1],
     [type |-> "OTHER", hasTab |-> TRUE, tab |-> 1, changes |-> 1]}

\* the condition of the chrome.runtime.onMessage listener
ListenerAccepts(message) ==
    message.type = "DOM_CHANGES_DETECTED" /\ message.hasTab

\* handleDOMChanges(changes): the handlers that are called
HandleDOMChanges(cbs, changes) ==
    IF changes = 0 THEN {} ELSE {cbs[i] : i \in DOMAIN cbs}

\* the results of the page script: the message of a selection, or one of its
\* messages about something that was not found (the messages themselves are
\* those of the dropdown specification)
ScriptOutcomes == {"selected", "notFound"}

(***************************************************************************)
(* One of the overlapping selectEnhancedDropdownOption calls.              *)
(*   pc        idle, info (awaiting getEnhancedDropdownInfo), script        *)
(*             (awaiting executeScript), wait (the 100 ms timer), done      *)
(*   tab, domChangesDetected   the call's locals, gone when it completes    *)
(*   advisory  the text about new elements was appended to the result       *)
(*   reported  a DOM change of the call's own tab was reported while the    *)
(*             call was running                                             *)
(***************************************************************************)
IdleAct ==
    [pc |-> "idle", tab |-> 0, domChangesDetected |-> FALSE, outcome |-> "none",
     settled |-> "none", advisory |-> FALSE, reported |-> FALSE]

(***************************************************************************)
(* The messages the planner sends (PlannerAgent.execute).  A message has a *)
(* role and a content that is a string (isArray FALSE, text) or an array   *)
(* of text and image_url parts; a text is a sequence of words.             *)
(***************************************************************************)
TextPart(w) == [type |-> "text", text |-> <<w>>]

ImagePart == [type |-> "image_url", text |-> <<>>]

StringMessage(role, w) == [role |-> role, isArray |-> FALSE, text |-> <<w>>, parts |-> <<>>]

ArrayMessage(role, parts) == [role |-> role, isArray |-> TRUE, text |-> <<>>, parts |-> parts]

\* the first message of the history: the navigator's system message
OriginalSystemMessage == StringMessage("system", "navigator-system")

\* this.prompt.getSystemMessage()
PlannerSystemMessage == StringMessage("system", "planner-system")

\* the messages the message manager may hold after the system message: the
\* task, a browser state with a screenshot (one or two text parts), a model
\* output
HistoryMessages ==
    {StringMessage("human", "task"),
     ArrayMessage("human", <<TextPart("state"), ImagePart>>),
     ArrayMessage("human", <<TextPart("state"), ImagePart, TextPart("tabs")>>),
     StringMessage("ai", "output")}

NoVision == [useVision |-> FALSE, useVisionForPlanner |-> FALSE]

VisionOptions == [useVision : BOOLEAN, useVisionForPlanner : BOOLEAN]

NothingSent == [done |-> FALSE, messages |-> <<>>]

\* messages.slice(1)
Slice1(messages) == SubSeq(messages, 2, Len(messages))

\* newMsg += msg.text for the text parts, in order
RECURSIVE TextOfParts(_)
TextOfParts(parts) ==
    IF parts = <<>> THEN <<>>
    ELSE (IF Head(parts).type = "text" THEN Head(parts).text ELSE <<>>) \o TextOfParts(Tail(parts))

\* new HumanMessage(newMsg)
WithoutImages(lastStateMessage) ==
    [role |-> "human", isArray |-> FALSE,
     text |-> IF lastStateMessage.isArray THEN TextOfParts(lastStateMessage.parts)
              ELSE lastStateMessage.text,
     parts |-> <<>>]

RemovesImages(options) == ~options.useVisionForPlanner /\ options.useVision

\* plannerMessages as execute passes them to invoke
PlannerMessages(messages, options) ==
    LET plannerMessages == <<PlannerSystemMessage>> \o Slice1(messages) IN
    IF RemovesImages(options)
    THEN [plannerMessages EXCEPT ![Len(plannerMessages)] = WithoutImages(@)]
    ELSE plannerMessages

(***************************************************************************)
(* The validator's prompt (ValidatorPrompt).  The text tasksToValidate     *)
(* builds is kept as its parts: the task presented as the task to          *)
(* validate, and the numbered lines under "Previous tasks:".               *)
(***************************************************************************)
TaskTexts == {"find a hotel", "book it"}

Languages == {"auto", "en", "ja"}

NoValidatorMessage == [built |-> FALSE, language |-> "auto", ultimate |-> "", previous |-> <<>>]

TasksToValidateFirstTask(ts) ==
    [ultimate |-> ts[1],
     previous |-> [i \in 1..(Len(ts) - 1) |-> [number |-> i, task |-> ts[i + 1]]]]

\* tasksToValidate(): a single task alone; otherwise the last task, and the
\* earlier ones as `${index + 1}. ${task}` lines (index from 0)
TasksToValidate(ts) ==
    IF Len(ts) = 1
    THEN [ultimate |-> ts[1], previous |-> <<>>]
    ELSE [ultimate |-> ts[Len(ts)],
          previous |-> [i \in 1..(Len(ts) - 1) |-> [number |-> (i - 1) + 1, task |-> ts[i]]]]

\* getDynamicValidatorPrompt(language, task): the prompt of the language
\* with the task text in it
GetDynamicValidatorPrompt(lang, task) ==
    [built |-> TRUE, language |-> lang, ultimate |-> task.ultimate, previous |-> task.previous]

(***************************************************************************)
(* The legacy-to-AG-UI event bridge (LegacyToAGUIEventBridge).  Ids are    *)
(* positive numbers, 0 is null.                                            *)
(***************************************************************************)
TaskStates == {"TASK_START", "TASK_OK", "TASK_FAIL", "TASK_CANCEL"}

StepStates == {"STEP_START", "STEP_OK", "STEP_FAIL"}

\* the states convertEvent has a case for, and one it has no case for
ExecutionStates == TaskStates \cup StepStates \cup {"ACT_START"}

Actors == {"PLANNER", "NAVIGATOR", "VALIDATOR", "SYSTEM", "USER"}

\* legacy events: task events come from the system actor; details may be absent
LegacyEvents ==
    {[state |-> s, actor |-> "SYSTEM", hasDetails |-> d] : s \in TaskStates, d \in BOOLEAN} \cup
    {[state |-> s, actor |-> a, hasDetails |-> d] :
        s \in StepStates \cup {"ACT_START"}, a \in Actors, d \in BOOLEAN}

NewBridge == [currentMessageId |-> 0, currentRunId |-> 0]

NoLegacyEvent == [state |-> "", actor |-> "", hasDetails |-> FALSE]

NothingConverted == [event |-> NoLegacyEvent, out |-> <<>>]

\* an AG-UI event: its type, the run or message id it carries (0: none), and
\* its step name, message or delta
AGUIEvent(type, id, text) == [type |-> type, id |-> id, text |-> text]

GetStepName(actor) ==
    CASE actor = "PLANNER" -> "Planning"
      [] actor = "NAVIGATOR" -> "Navigation"
      [] actor = "VALIDATOR" -> "Validation"
      [] actor = "SYSTEM" -> "System"
      [] OTHER -> actor

ShouldStartMessage(actor) == actor \in {"PLANNER", "NAVIGATOR", "SYSTEM"}

\* the TASK_OK case
ConvertTaskOk(b, e, fresh) ==
    IF b.currentRunId # 0
    THEN [bridge |-> [b EXCEPT !.currentRunId = 0],
          out |-> <<AGUIEvent("RUN_FINISHED", b.currentRunId, "")>>]
    ELSE [bridge |-> b, out |-> <<>>]

\* the TASK_FAIL and TASK_CANCEL cases
ConvertTaskError(b, e, fresh) ==
    [bridge |-> [b EXCEPT !.currentRunId = 0],
     out |-> <<AGUIEvent("RUN_ERROR", 0,
                 IF e.state = "TASK_CANCEL" THEN "Task was cancelled"
                 ELSE IF e.hasDetails THEN "details" ELSE "Task failed")>>]

\* the STEP_START case
ConvertStepStart(b, e, fresh) ==
    IF ShouldStartMessage(e.actor)
    THEN [bridge |-> [b EXCEPT !.currentMessageId = fresh],
          out |-> <<AGUIEvent("STEP_STARTED", 0, GetStepName(e.actor)),
                    AGUIEvent("TEXT_MESSAGE_START", fresh, "assistant")>>]
    ELSE [bridge |-> b, out |-> <<AGUIEvent("STEP_STARTED", 0, GetStepName(e.actor))>>]

\* a STEP_OK case that leaves the message open
ConvertStepOkWithoutEnd(b, e, fresh) ==
    [bridge |-> b,
     out |-> (IF b.currentMessageId # 0 /\ e.hasDetails
              THEN <<AGUIEvent("TEXT_MESSAGE_CONTENT", b.currentMessageId, "details")>>
              ELSE <<>>) \o <<AGUIEvent("STEP_FINISHED", 0, GetStepName(e.actor))>>]

\* the STEP_OK case
ConvertStepOk(b, e, fresh) ==
    LET content == IF b.currentMessageId # 0 /\ e.hasDetails
                   THEN <<AGUIEvent("TEXT_MESSAGE_CONTENT", b.currentMessageId, "details")>>
                   ELSE <<>>
        ends == b.currentMessageId # 0 /\ ShouldStartMessage(e.actor)
        end == IF ends THEN <<AGUIEvent("TEXT_MESSAGE_END", b.currentMessageId, "")>> ELSE <<>>
    IN [bridge |-> IF ends THEN [b EXCEPT !.currentMessageId = 0] ELSE b,
        out |-> content \o end \o <<AGUIEvent("STEP_FINISHED", 0, GetStepName(e.actor))>>]

\* the STEP_FAIL case
ConvertStepFail(b, e, fresh) ==
    LET content == IF b.currentMessageId # 0 /\ e.hasDetails
                   THEN <<AGUIEvent("TEXT_MESSAGE_CONTENT", b.currentMessageId, "Error: details")>>
                   ELSE <<>>
        end == IF b.currentMessageId # 0
               THEN <<AGUIEvent("TEXT_MESSAGE_END", b.currentMessageId, "")>> ELSE <<>>
    IN [bridge |-> [b EXCEPT !.currentMessageId = 0],
        out |-> content \o end \o <<AGUIEvent("STEP_FINISHED", 0, GetStepName(e.actor))>>]

\* convertEvent(legacyEvent): the bridge after the call and the events returned
ConvertEvent(b, e, fresh) ==
    CASE e.state = "TASK_START" ->
           [bridge |-> [b EXCEPT !.currentRunId = fresh],
            out |-> <<AGUIEvent("RUN_STARTED", fresh, "main-thread")>>]
      [] e.state = "TASK_OK" -> ConvertTaskOk(b, e, fresh)
      [] e.state \in {"TASK_FAIL", "TASK_CANCEL"} -> ConvertTaskError(b, e, fresh)
      [] e.state = "STEP_START" -> ConvertStepStart(b, e, fresh)
      [] e.state = "STEP_OK" -> ConvertStepOk(b, e, fresh)
      [] e.state = "STEP_FAIL" -> ConvertStepFail(b, e, fresh)
      [] OTHER -> [bridge |-> b, out |-> <<>>]

\* the ids of the events of a type among the events returned
IdsOf(out, type) == {out[i].id : i \in {j \in DOMAIN out : out[j].type = type}}

\* the messages that are started and not ended after the events returned
OpenAfter(open, out) ==
    (open \cup IdsOf(out, "TEXT_MESSAGE_START")) \ IdsOf(out, "TEXT_MESSAGE_END")

\* the call draws an id from nanoid()
DrawsId(e) ==
    \/ e.state = "TASK_START"
    \/ e.state = "STEP_START" /\ ShouldStartMessage(e.actor)

(***************************************************************************)
(* The orchestration loop of one task run (Executor).                      *)
(*   state     INIT, PLANNING, NAVIGATING, VALIDATING, DONE, FAILED,       *)
(*             CANCELLED                                                   *)
(*   step      the step index (Navigator steps completed)                  *)
(*   failures  the consecutive-failure count                               *)
(*   plan      the Planner's last output (done, web_task)                  *)
(* and the record of what the run did: Planner cycles (counted up to 2),   *)
(* Navigator steps, whether the Validator was invoked, whether a Planner   *)
(* invocation failed, and the last thing that happened.                    *)
(***************************************************************************)
GeneralSettings ==
    [maxSteps |-> DEFAULT_MAX_STEPS, maxFailures |-> DEFAULT_MAX_FAILURES,
     planningInterval |-> DEFAULT_PLANNING_INTERVAL]

\* plannerOutputSchema: done and web_task are any booleans (or the strings
\* 'true' and 'false', transformed to booleans)
PlannerOutputs == [done : BOOLEAN, web_task : BOOLEAN]

NoPlan == [done |-> FALSE, web_task |-> TRUE]

TerminalStates == {"DONE", "FAILED", "CANCELLED"}

NewRun ==
    [state |-> "INIT", step |-> 0, failures |-> 0, hasPlan |-> FALSE, plan |-> NoPlan,
     plannerCycles |-> 0, navigatorSteps |-> 0, validatorInvoked |-> FALSE,
     plannerFailed |-> FALSE, last |-> "none"]

FailuresAfterStepNoReset(ok, failures) == IF ok THEN failures ELSE failures + 1

\* the consecutive-failure count after a step
FailuresAfterStep(ok, failures) == IF ok THEN 0 ELSE failures + 1

FailureLimitExceeded(failures, settings) == failures > settings.maxFailures

\* maxFailures consecutive failures end the task
FailureLimitReached(failures, settings) == failures >= settings.maxFailures

StepLimitReached(step, settings) == step >= settings.maxSteps

\* the Planner is invoked every planningInterval steps
PlanningDue(step, settings) == step % settings.planningInterval = 0

\* where the run goes after a Navigator step that completed without error
AfterNavigatorOk(r, navigatorDone, settings) ==
    IF navigatorDone THEN "VALIDATING"
    ELSE IF StepLimitReached(r.step, settings) THEN "FAILED"
    ELSE IF PlanningDue(r.step, settings) THEN "PLANNING"
    ELSE "NAVIGATING"

\* where the run goes after a failure
AfterFailure(r, settings) ==
    IF FailureLimitReached(r.failures, settings) THEN "FAILED"
    ELSE IF StepLimitReached(r.step, settings) THEN "FAILED"
    ELSE "PLANNING"

\* where the run goes after a Planner cycle
AfterPlan(plan) ==
    IF ~plan.web_task THEN "DONE"
    ELSE IF plan.done THEN "VALIDATING"
    ELSE "NAVIGATING"

(***************************************************************************)
(* The side panel's connection to the background (EventBus) and the user   *)
(* messages it sends.  this.port is "null", or a Port object that is       *)
(* "open", or one that has "disconnected" while its onDisconnect listener  *)
(* has not run yet.                                                        *)
(***************************************************************************)
PortStates == {"null", "open", "disconnected"}

\* chrome.runtime.connect returns a port or throws
ConnectOutcomes == {"port", "throws"}

\* the port argument of the protocol's sendUserMessage: EventBus passes none
NoPortArgument == "undefined"

\* sendUserMessage(text, threadId?, port?) of the protocol: the transports it
\* uses, in order; postMessage throws on a port that has disconnected
SendUserMessage(portArgument) ==
    IF portArgument # NoPortArgument
    THEN IF portArgument = "disconnected"
         THEN <<"port.postMessage throws", "chrome.runtime.sendMessage">>
         ELSE <<"port.postMessage">>
    ELSE <<"chrome.runtime.sendMessage">>

\* EventBus.sendUserMessage(text): the transports used
EventBusSendUserMessage(p) ==
    IF p # "null" THEN SendUserMessage(NoPortArgument) ELSE <<>>

\* setupConnection(): the port after the call
SetupConnection(p, outcome) == IF outcome = "port" THEN "open" ELSE p

(***************************************************************************)
(* Direct calls of the ledger's operations (TokenUsageManager).            *)
(*   op       hasTokens, consumeTokens, getTokenUsage, resetTokens          *)
(*   pc       idle, get (awaiting storage.get), reset_set (awaiting the     *)
(*            storage.set of the monthly reset), consume_set, default_set   *)
(*            (awaiting the storage.set of resetTokens), done               *)
(*   usage    the record the call holds across an await, or returns         *)
(*   success  hasTokens' result, consumeTokens' success                     *)
(***************************************************************************)
LedgerOps == 1..MaxLedgerOps

OpNames == {"hasTokens", "consumeTokens", "getTokenUsage", "resetTokens"}

ModelNames == {GetModelName(a) : a \in Agents}

IdleOp == [op |-> "none", model |-> "none", pc |-> "idle", usage |-> NoUsage, success |-> FALSE]

\* createDefaultTokenUsage() at time n
CreateDefaultTokenUsage(n) == [used |-> 0, limit |-> FREE_TIER_LIMIT, resetDate |-> n + 1]

\* a consumeTokens that never refuses
ConsumeRefusedNever(u, cost) == FALSE

\* consumeTokens' test `usage.used + cost > usage.limit`
ConsumeRefused(u, cost) == u.used + cost > u.limit

\* the continuation of `await this.getTokenUsage()` in an operation, with the
\* usage u it returned
OpAfterGetTokenUsage(r, u) ==
    CASE r.op = "getTokenUsage" ->
           [r EXCEPT !.pc = "done", !.usage = u, !.success = TRUE]
      [] r.op = "hasTokens" ->
           [r EXCEPT !.pc = "done", !.usage = u, !.success = HasTokens(u, GetTokenCost(r.model))]
      [] r.op = "consumeTokens" ->
           IF ConsumeRefused(u, GetTokenCost(r.model))
           THEN [r EXCEPT !.pc = "done", !.usage = u, !.success = FALSE]
           ELSE [r EXCEPT !.pc = "consume_set", !.usage = UpdatedUsage(u, GetTokenCost(r.model))]

(***************************************************************************)
(* The side panel's event bus (EventBus): the buffer and its listeners.    *)
(* The listeners are a Set, kept here in its insertion order; the listener *)
(* "faulty" throws when it is called.                                      *)
(***************************************************************************)
ListenerIds == {"setEvents", "faulty"}

\* events.slice(-n)
SliceLast(evs, n) ==
    IF Len(evs) > n THEN SubSeq(evs, Len(evs) - n + 1, Len(evs)) ELSE evs

\* events.slice(0, n)
SliceFirst(evs, n) ==
    IF Len(evs) > n THEN SubSeq(evs, 1, n) ELSE evs

\* addEvent(event): the buffer after the push and the cut
AddEventKeepsOldest(evs, e) ==
    LET pushed == Append(evs, e) IN
    IF Len(pushed) > MAX_EVENTS THEN SliceFirst(pushed, MAX_EVENTS) ELSE pushed

AddEvent(evs, e) ==
    LET pushed == Append(evs, e) IN
    IF Len(pushed) > MAX_EVENTS THEN SliceLast(pushed, MAX_EVENTS) ELSE pushed

\* getEvents(): a copy of the buffer
GetEvents(evs) == evs

\* listeners.add(listener), listeners.delete(listener)
SetAdd(ls, l) == IF \E i \in DOMAIN ls : ls[i] = l THEN ls ELSE Append(ls, l)

SetDelete(ls, l) == SelectSeq(ls, LAMBDA x : x # l)

\* notifyListeners(): every listener is called with a copy of the buffer; what
\* a listener throws is caught and logged
NotifyListeners(ls, evs) ==
    [i \in DOMAIN ls |-> [listener |-> ls[i], events |-> GetEvents(evs), threw |-> ls[i] = "faulty"]]

(***************************************************************************)
(* The chat components of the side panel.  AgentChat's effect walks the    *)
(* whole events array and appends the messages it finds; ChatPanel's       *)
(* effect handles the last event of the array.  A message content is the   *)
(* sequence of the deltas added to it.                                     *)
(***************************************************************************)
\* the message that is started and not ended in a stream of events (0: none)
RECURSIVE OpenMessage(_)
OpenMessage(evs) ==
    IF evs = <<>> THEN 0
    ELSE LET e == evs[Len(evs)] IN
         CASE e.type = "TEXT_MESSAGE_START" -> e.id
           [] e.type = "TEXT_MESSAGE_END" -> 0
           [] OTHER -> OpenMessage(SubSeq(evs, 1, Len(evs) - 1))

StartedMessages(evs) == {evs[i].id : i \in {j \in DOMAIN evs : evs[j].type = "TEXT_MESSAGE_START"}}

\* the AG-UI events the panel may receive
AllPanelEvents ==
    {AGUIEvent("TEXT_MESSAGE_START", id, "assistant") : id \in 1..MaxPanelEvents} \cup
    {AGUIEvent("TEXT_MESSAGE_CONTENT", id, "details") : id \in 1..MaxPanelEvents} \cup
    {AGUIEvent("TEXT_MESSAGE_END", id, "") : id \in 1..MaxPanelEvents} \cup
    {AGUIEvent("RUN_STARTED", 0, "main-thread"), AGUIEvent("RUN_FINISHED", 0, ""),
     AGUIEvent("RUN_ERROR", 0, "Task failed")}

\* the events that may arrive next: the text-message events are bracketed
NextPanelEvents(evs) ==
    IF OpenMessage(evs) = 0
    THEN {AGUIEvent("TEXT_MESSAGE_START", Cardinality(StartedMessages(evs)) + 1, "assistant"),
          AGUIEvent("RUN_STARTED", 0, "main-thread"),
          AGUIEvent("RUN_FINISHED", 0, ""),
          AGUIEvent("RUN_ERROR", 0, "Task failed")}
    ELSE {AGUIEvent("TEXT_MESSAGE_CONTENT", OpenMessage(evs), "details"),
          AGUIEvent("TEXT_MESSAGE_END", OpenMessage(evs), ""),
          AGUIEvent("RUN_ERROR", 0, "Task failed")}

\* AgentChat: the loop over the events; s holds currentMessage, isStreaming
\* and newMessages
AgentChatStep(s, event) ==
    CASE event.type \in {"RUN_FINISHED", "TEXT_MESSAGE_END"} ->
           IF s.isStreaming /\ s.currentMessage # <<>>
           THEN [currentMessage |-> <<>>, isStreaming |-> FALSE,
                 newMessages |-> Append(s.newMessages, [actor |-> "PLANNER", content |-> s.currentMessage])]
           ELSE s
      [] event.type = "RUN_ERROR" ->
           [s EXCEPT !.isStreaming = FALSE,
                     !.newMessages = Append(@, [actor |-> "SYSTEM", content |-> <<"Error: ", event.text>>])]
      [] event.type = "TEXT_MESSAGE_START" ->
           [s EXCEPT !.isStreaming = TRUE, !.currentMessage = <<>>]
      [] event.type = "TEXT_MESSAGE_CONTENT" ->
           IF s.isStreaming THEN [s EXCEPT !.currentMessage = Append(@, event.text)] ELSE s
      [] OTHER -> s

RECURSIVE AgentChatLoop(_, _)
AgentChatLoop(s, evs) ==
    IF evs = <<>> THEN s ELSE AgentChatLoop(AgentChatStep(s, Head(evs)), Tail(evs))

\* AgentChat's effect on [events]
AgentChatEffect(msgs, evs) ==
    IF Len(evs) = 0 THEN msgs
    ELSE msgs \o AgentChatLoop([currentMessage |-> <<>>, isStreaming |-> FALSE, newMessages |-> <<>>],
                               evs).newMessages

\* ChatPanel.handleAGUIEvent: the messages state after the event
HandleAGUIEvent(msgs, event) ==
    CASE event.type = "RUN_ERROR" ->
           Append(msgs, [id |-> 0, content |-> <<>>, isStreaming |-> FALSE, error |-> event.text])
      [] event.type = "TEXT_MESSAGE_START" ->
           Append(msgs, [id |-> event.id, content |-> <<>>, isStreaming |-> TRUE, error |-> ""])
      [] event.type = "TEXT_MESSAGE_CONTENT" ->
           [i \in DOMAIN msgs |->
              IF msgs[i].id = event.id THEN [msgs[i] EXCEPT !.content = Append(@, event.text)]
              ELSE msgs[i]]
      [] event.type = "TEXT_MESSAGE_END" ->
           [i \in DOMAIN msgs |->
              IF msgs[i].id = event.id THEN [msgs[i] EXCEPT !.isStreaming = FALSE] ELSE msgs[i]]
      [] OTHER -> msgs

\* ChatPanel's effect on [eventStream]
ChatPanelEffect(msgs, evs) ==
    IF Len(evs) = 0 THEN msgs ELSE HandleAGUIEvent(msgs, evs[Len(evs)])

(***************************************************************************)
(* The favorite prompts storage (createFavoritesStorage).  The stored      *)
(* record holds the id counter and the prompts, newest first.  A call of   *)
(* favoritesStorage.set(update) applies its update function to the record  *)
(* that is stored when the set takes effect.                               *)
(***************************************************************************)
PromptCalls == 1..MaxPromptCalls

PromptIds == 1..MaxPromptId

Titles == {"t"}

Contents == {"a", "b"}

\* defaultFavoritePrompts: five templates
DefaultFavoritePrompts ==
    <<[title |-> "mail", content |-> "d1"], [title |-> "news", content |-> "d2"],
      [title |-> "notes", content |-> "d3"], [title |-> "shopping", content |-> "d4"],
      [title |-> "weather", content |-> "d5"]>>

\* initialState
InitialState == [nextId |-> 1, prompts |-> <<>>]

\* prompts.findIndex(p => p.id === id), counted from 1: 0 when absent
FindIndexById(prompts, id) ==
    IF \E i \in DOMAIN prompts : prompts[i].id = id
    THEN CHOOSE i \in DOMAIN prompts :
            prompts[i].id = id /\ \A j \in 1..(i - 1) : prompts[j].id # id
    ELSE 0

\* prompts.find(p => p.content === content): its index, 0 when absent
FindIndexByContent(prompts, content) ==
    IF \E i \in DOMAIN prompts : prompts[i].content = content
    THEN CHOOSE i \in DOMAIN prompts :
            prompts[i].content = content /\ \A j \in 1..(i - 1) : prompts[j].content # content
    ELSE 0

\* the update function of addPrompt and of getAllPrompts
AddUpdate(prev, title, content) ==
    [nextId |-> prev.nextId + 1,
     prompts |-> <<[id |-> prev.nextId, title |-> title, content |-> content]>> \o prev.prompts]

\* the update function of updatePrompt
UpdatePromptUpdate(prev, id, title, content) ==
    [prev EXCEPT !.prompts = [i \in DOMAIN prev.prompts |->
        IF prev.prompts[i].id = id
        THEN [prev.prompts[i] EXCEPT !.title = title, !.content = content]
        ELSE prev.prompts[i]]]

\* the update function of updatePromptTitle
UpdatePromptTitleUpdate(prev, id, title) ==
    [prev EXCEPT !.prompts = [i \in DOMAIN prev.prompts |->
        IF prev.prompts[i].id = id
        THEN [prev.prompts[i] EXCEPT !.title = title]
        ELSE prev.prompts[i]]]

\* the update function of removePrompt
RemoveUpdate(prev, id) ==
    [prev EXCEPT !.prompts = SelectSeq(prev.prompts, LAMBDA p : p.id # id)]

\* promptsCopy.splice(sourceIndex, 1) and promptsCopy.splice(targetIndex, 0, movedItem)
Moved(prompts, sourceIndex, targetIndex) ==
    LET rest == SubSeq(prompts, 1, sourceIndex - 1) \o SubSeq(prompts, sourceIndex + 1, Len(prompts)) IN
    SubSeq(rest, 1, targetIndex - 1) \o <<prompts[sourceIndex]>> \o SubSeq(rest, targetIndex, Len(rest))

\* the update function of reorderPrompts
ReorderUpdateKeepsIds(prev, draggedId, targetId) ==
    LET sourceIndex == FindIndexById(prev.prompts, draggedId)
        targetIndex == FindIndexById(prev.prompts, targetId) IN
    IF sourceIndex = 0 \/ targetIndex = 0 THEN prev
    ELSE [prev EXCEPT !.prompts = Moved(prev.prompts, sourceIndex, targetIndex),
                      !.nextId = Len(prev.prompts) + 1]

ReorderUpdate(prev, draggedId, targetId) ==
    LET sourceIndex == FindIndexById(prev.prompts, draggedId)
        targetIndex == FindIndexById(prev.prompts, targetId) IN
    IF sourceIndex = 0 \/ targetIndex = 0 THEN prev
    ELSE LET promptsCopy == Moved(prev.prompts, sourceIndex, targetIndex)
             numPrompts == Len(promptsCopy) IN
         [prev EXCEPT !.prompts = [i \in DOMAIN promptsCopy |->
                                      [promptsCopy[i] EXCEPT !.id = numPrompts - (i - 1)]],
                      !.nextId = numPrompts + 1]

\* the calls that are one favoritesStorage.set(update)
UpdaterOps == {"updatePrompt", "updatePromptTitle", "removePrompt", "reorderPrompts"}

\* the update function of such a call, applied
ApplyUpdate(prev, r) ==
    CASE r.op = "updatePrompt" -> UpdatePromptUpdate(prev, r.id, r.title, r.content)
      [] r.op = "updatePromptTitle" -> UpdatePromptTitleUpdate(prev, r.id, r.title)
      [] r.op = "removePrompt" -> RemoveUpdate(prev, r.id)
      [] r.op = "reorderPrompts" -> ReorderUpdate(prev, r.id, r.targetId)

\* getAllPrompts: the storage is in its initial state
IsInitialState(currentState) ==
    Len(currentState.prompts) = 0 /\ currentState.nextId = 1

(***************************************************************************)
(* One call of the favorite prompts storage.                               *)
(* The calls are numbered in the order in which they are made.             *)
(*   pc        idle, add_get / all_get (awaiting favoritesStorage.get),    *)
(*             add_set / set / all_set (awaiting favoritesStorage.set),    *)
(*             add_read / all_read (awaiting the last get), done           *)
(*   next      getAllPrompts: the default prompt the loop is at            *)
(*   returned  addPrompt: the content of the prompt returned ("" before,   *)
(*             "undefined" when prompts[0] is absent)                      *)
(***************************************************************************)
IdlePromptCall ==
    [pc |-> "idle", op |-> "none", id |-> 0, targetId |-> 0, title |-> "", content |-> "",
     next |-> 0, returned |-> ""]

DonePromptCall(returned) == [IdlePromptCall EXCEPT !.pc = "done", !.returned = returned]

\* call c is the next call to be made; callers that await each call make it
\* when no call is in progress
NextPromptCall(cs, c, overlap) ==
    /\ cs[c].pc = "idle"
    /\ \A d \in 1..(c - 1) : cs[d].pc # "idle"
    /\ overlap \/ \A d \in DOMAIN cs : cs[d].pc \in {"idle", "done"}

(***************************************************************************)
(* The general settings store (generalSettingsStore).  Of the settings the *)
(* model keeps useVision, displayHighlights and firstTimeUser.  A          *)
(* Partial<GeneralSettingsConfig> gives each field a value (<<v>>) or      *)
(* leaves it out (<<>>).                                                   *)
(***************************************************************************)
SettingsCalls == 1..MaxSettingsCalls

\* DEFAULT_GENERAL_SETTINGS
DEFAULT_GENERAL_SETTINGS ==
    [useVision |-> FALSE, displayHighlights |-> TRUE, firstTimeUser |-> TRUE]

SettingsConfigs == [useVision : BOOLEAN, displayHighlights : BOOLEAN, firstTimeUser : BOOLEAN]

\* the partial settings the callers of updateSettings pass
Given(v) == <<v>>

Absent == <<>>

PartialSettings ==
    [useVision : {Absent, Given(TRUE), Given(FALSE)},
     displayHighlights : {Absent, Given(TRUE), Given(FALSE)},
     firstTimeUser : {Absent}]

\* a whole GeneralSettingsConfig passed as partial settings
AllGiven(config) == [f \in DOMAIN config |-> Given(config[f])]

\* { ...currentSettings, ...settings }
Spread(currentSettings, settings) ==
    [f \in DOMAIN currentSettings |->
        IF settings[f] = Absent THEN currentSettings[f] ELSE settings[f][1]]

\* updateSettings: the record that is stored
UpdatedSettingsAsMerged(currentSettings, settings) == Spread(currentSettings, settings)

UpdatedSettings(currentSettings, settings) ==
    LET merged == Spread(currentSettings, settings) IN
    IF merged.useVision /\ ~merged.displayHighlights
    THEN [merged EXCEPT !.displayHighlights = TRUE]
    ELSE merged

\* getSettings: { ...DEFAULT_GENERAL_SETTINGS, ...settings }
GetSettings(stored) == Spread(DEFAULT_GENERAL_SETTINGS, AllGiven(stored))

(***************************************************************************)
(* One call of generalSettingsStore.                                       *)
(*   pc        idle, mark_get (markFirstTimeComplete awaiting getSettings), *)
(*             update_get (updateSettings awaiting storage.get), update_set *)
(*             and reset_set (awaiting storage.set), done                   *)
(*   settings  the argument of updateSettings                              *)
(*   value     the record passed to storage.set                            *)
(*   forced    updateSettings has set displayHighlights to true            *)
(***************************************************************************)
NoSettings == [useVision |-> Absent, displayHighlights |-> Absent, firstTimeUser |-> Absent]

IdleSettingsCall ==
    [pc |-> "idle", settings |-> NoSettings, value |-> DEFAULT_GENERAL_SETTINGS, forced |-> FALSE]

(***************************************************************************)
(* DOMutationObserver.startObserving.                                      *)
(*   pc       idle, inject (awaiting chrome.scripting.executeScript), done *)
(*   tab      the tabId argument                                           *)
(*   settled  none, resolved, rejected                                     *)
(*   observed the tab's page held the observer when the call resolved      *)
(*   failedWhilePending  an injection into the call's tab failed while the *)
(*            call was pending                                             *)
(***************************************************************************)
StartCalls == 1..MaxStarts

IdleStart ==
    [pc |-> "idle", tab |-> 0, settled |-> "none", observed |-> FALSE, failedWhilePending |-> FALSE]

\* startObserving: the test at its start
AlreadyObserving(observing, tabId) == observing = tabId

TypeOK ==
    /\ tokenUsage \in [used : 0..FREE_TIER_LIMIT + 8, limit : {FREE_TIER_LIMIT}, resetDate : 0..MaxNow + 2]
    /\ now \in 0..MaxNow
    /\ aborted \in BOOLEAN
    /\ DOMAIN call = Calls

Init ==
    /\ \E h \in {0, 2, MaxHeadroom} :
         tokenUsage = [used |-> FREE_TIER_LIMIT - h, limit |-> FREE_TIER_LIMIT, resetDate |-> 1]
    /\ now = 0
    /\ aborted = FALSE
    /\ call = [c \in Calls |-> IdleCall]
    /\ page = NoPage
    /\ sel = IdleSelect
    /\ clock = 0
    /\ wait = IdleWait
    /\ dom = NoDom
    /\ tool = IdleTool
    /\ isObservingTab = 0
    /\ injected = {}
    /\ startCalls = <<>>
    /\ storedSettings = DEFAULT_GENERAL_SETTINGS
    /\ settingsCalls = <<>>
    /\ favorites = InitialState
    /\ promptCalls = <<>>
    /\ mayOverlap = FALSE
    /\ panelEvents = <<>>
    /\ effectPending = FALSE
    /\ agentMessages = <<>>
    /\ chatMessages = <<>>
    /\ events = <<>>
    /\ listeners = <<>>
    /\ listenerCalls = <<>>
    /\ arrived = 0
    /\ ops = <<>>
    /\ usedAtStart = tokenUsage.used
    /\ port = "null"
    /\ reconnectTimer = FALSE
    /\ outbox = <<>>
    /\ run = NewRun
    /\ bridge = NewBridge
    /\ nextId = 1
    /\ converted = NothingConverted
    /\ openMessages = {}
    /\ tasks = <<>>
    /\ language = "auto"
    /\ validatorMessage = NoValidatorMessage
    /\ history = <<OriginalSystemMessage>>
    /\ visionOptions = NoVision
    /\ sent = NothingSent
    /\ callbacks = <<>>
    /\ acts = <<>>

\* execute(): emits STEP_START and calls invoke, which awaits hasTokens
ExecuteStart(c, a) ==
    /\ call[c].pc = "idle"
    /\ call' = [call EXCEPT ![c] = [@ EXCEPT !.pc = "gtu_get", !.ret = "has", !.agent = a,
                                              !.startedAborted = aborted,
                                              !.events = Append(@, "STEP_START")]]
    /\ UNCHANGED <<tokenUsage, now, aborted>>
    /\ UNCHANGED <<dropdownVars, waitVars, toolVars, observerVars, messageVars, validatorVars, bridgeVars, executorVars, connectionVars, ledgerStartVars, ledgerVars, busVars, panelVars, favoritesVars, settingsVars, injectionVars>>

\* getTokenUsage: storage.get resolves; in a new month the reset record is
\* built and its write awaited, otherwise the stored record is returned
GetTokenUsageGet(c) ==
    /\ call[c].pc = "gtu_get"
    /\ IF NeedsReset(tokenUsage, now)
       THEN call' = [call EXCEPT ![c] = [@ EXCEPT !.pc = "gtu_set", !.usage = ResetUsage(now)]]
       ELSE call' = [call EXCEPT ![c] = AfterGetTokenUsage(@, tokenUsage)]
    /\ UNCHANGED <<tokenUsage, now, aborted>>
    /\ UNCHANGED <<dropdownVars, waitVars, toolVars, observerVars, messageVars, validatorVars, bridgeVars, executorVars, connectionVars, ledgerStartVars, ledgerVars, busVars, panelVars, favoritesVars, settingsVars, injectionVars>>

\* getTokenUsage: storage.set(resetUsage) resolves and resetUsage is returned
GetTokenUsageSet(c) ==
    /\ call[c].pc = "gtu_set"
    /\ tokenUsage' = call[c].usage
    /\ call' = [call EXCEPT ![c] = AfterGetTokenUsage(@, call[c].usage)]
    /\ UNCHANGED <<now, aborted>>
    /\ UNCHANGED <<dropdownVars, waitVars, toolVars, observerVars, messageVars, validatorVars, bridgeVars, executorVars, connectionVars, ledgerStartVars, ledgerVars, busVars, panelVars, favoritesVars, settingsVars, injectionVars>>

\* the chat model answers the call (structuredLlm.invoke / chatLLM.invoke)
ModelResponds(c, outcome) ==
    /\ call[c].pc = "model"
    /\ ~aborted
    /\ outcome \in (IF Structured(call[c]) THEN StructuredOutcomes ELSE FreeformOutcomes)
    /\ call' = [call EXCEPT ![c] =
         IF ReturnsParsed(Structured(@), outcome)
         THEN IF ConsumesTokens(Structured(@), outcome)
              THEN [@ EXCEPT !.pc = "gtu_get", !.ret = "consume", !.consumeCalls = @ + 1]
              ELSE ExecuteOk(@)
         ELSE InvokeParseFailure(@, outcome)]
    /\ UNCHANGED <<tokenUsage, now, aborted>>
    /\ UNCHANGED <<dropdownVars, waitVars, toolVars, observerVars, messageVars, validatorVars, bridgeVars, executorVars, connectionVars, ledgerStartVars, ledgerVars, busVars, panelVars, favoritesVars, settingsVars, injectionVars>>

\* the chat model call rejects: a provider error, or the abort error once
\* the signal is aborted
ModelRejects(c, e) ==
    /\ call[c].pc = "model"
    /\ IF aborted THEN e = AbortError ELSE e \in ProviderErrors
    /\ call' = [call EXCEPT ![c] =
         ExecuteFail([@ EXCEPT !.modelError = e], InvokeCatch(Structured(@), e))]
    /\ UNCHANGED <<tokenUsage, now, aborted>>
    /\ UNCHANGED <<dropdownVars, waitVars, toolVars, observerVars, messageVars, validatorVars, bridgeVars, executorVars, connectionVars, ledgerStartVars, ledgerVars, busVars, panelVars, favoritesVars, settingsVars, injectionVars>>

\* consumeTokens: storage.set(updatedUsage) resolves; invoke returns the output
ConsumeTokensSet(c) ==
    /\ call[c].pc = "consume_set"
    /\ tokenUsage' = call[c].usage
    /\ call' = [call EXCEPT ![c] = ExecuteOk(@)]
    /\ UNCHANGED <<now, aborted>>
    /\ UNCHANGED <<dropdownVars, waitVars, toolVars, observerVars, messageVars, validatorVars, bridgeVars, executorVars, connectionVars, ledgerStartVars, ledgerVars, busVars, panelVars, favoritesVars, settingsVars, injectionVars>>

\* the task is cancelled: controller.abort()
Cancel ==
    /\ ~aborted
    /\ aborted' = TRUE
    /\ call' = [c \in Calls |->
                  IF call[c].pc = "model"
                  THEN [call[c] EXCEPT !.cancelledInFlight = TRUE]
                  ELSE call[c]]
    /\ UNCHANGED <<tokenUsage, now>>
    /\ UNCHANGED <<dropdownVars, waitVars, toolVars, observerVars, messageVars, validatorVars, bridgeVars, executorVars, connectionVars, ledgerStartVars, ledgerVars, busVars, panelVars, favoritesVars, settingsVars, injectionVars>>

\* a month boundary passes
Tick ==
    /\ now < MaxNow
    /\ now' = now + 1
    /\ UNCHANGED <<tokenUsage, aborted, call>>
    /\ UNCHANGED <<dropdownVars, waitVars, toolVars, observerVars, messageVars, validatorVars, bridgeVars, executorVars, connectionVars, ledgerStartVars, ledgerVars, busVars, panelVars, favoritesVars, settingsVars, injectionVars>>

(***************************************************************************)
(* The dropdown specification: the document is any page of Pages, and one  *)
(* select action runs on it.                                               *)
(***************************************************************************)
DropdownInit ==
    /\ page \in Pages
    /\ sel = IdleSelect
    /\ clock = 0
    /\ wait = IdleWait
    /\ dom = NoDom
    /\ tool = IdleTool
    /\ isObservingTab = 0
    /\ injected = {}
    /\ startCalls = <<>>
    /\ storedSettings = DEFAULT_GENERAL_SETTINGS
    /\ settingsCalls = <<>>
    /\ favorites = InitialState
    /\ promptCalls = <<>>
    /\ mayOverlap = FALSE
    /\ panelEvents = <<>>
    /\ effectPending = FALSE
    /\ agentMessages = <<>>
    /\ chatMessages = <<>>
    /\ events = <<>>
    /\ listeners = <<>>
    /\ listenerCalls = <<>>
    /\ arrived = 0
    /\ ops = <<>>
    /\ usedAtStart = 0
    /\ port = "null"
    /\ reconnectTimer = FALSE
    /\ outbox = <<>>
    /\ run = NewRun
    /\ bridge = NewBridge
    /\ nextId = 1
    /\ converted = NothingConverted
    /\ openMessages = {}
    /\ tasks = <<>>
    /\ language = "auto"
    /\ validatorMessage = NoValidatorMessage
    /\ history = <<OriginalSystemMessage>>
    /\ visionOptions = NoVision
    /\ sent = NothingSent
    /\ callbacks = <<>>
    /\ acts = <<>>
    /\ tokenUsage = ResetUsage(0)
    /\ now = 0
    /\ aborted = FALSE
    /\ call = <<>>

\* selectEnhancedDropdownOption(tabId, dropdownMMID, identifier) is called
SelectStart(identifier) ==
    /\ sel.pc = "idle"
    /\ sel' = [sel EXCEPT !.pc = "info", !.identifier = identifier, !.before = page]
    /\ UNCHANGED <<page, invokeVars, waitVars, toolVars, observerVars, messageVars, validatorVars, bridgeVars, executorVars, connectionVars, ledgerStartVars, ledgerVars, busVars, panelVars, favoritesVars, settingsVars, injectionVars>>

\* getEnhancedDropdownInfo resolves: the handler is subscribed and the
\* script injected; it throws when no element has the mmid
SelectInfo ==
    /\ sel.pc = "info"
    /\ IF page.present
       THEN sel' = [sel EXCEPT !.pc = "script", !.type = DropdownType(page.kind),
                               !.subscribed = TRUE]
       ELSE sel' = [sel EXCEPT !.pc = "done", !.settled = "rejected"]
    /\ UNCHANGED <<page, invokeVars, waitVars, toolVars, observerVars, messageVars, validatorVars, bridgeVars, executorVars, connectionVars, ledgerStartVars, ledgerVars, busVars, panelVars, favoritesVars, settingsVars, injectionVars>>

\* executeScript resolves with the script's result; the 100 ms wait starts
SelectRunScript ==
    /\ sel.pc = "script"
    /\ LET r == SelectScript(page, sel.type, sel.identifier) IN
         /\ page' = r.page
         /\ sel' = [sel EXCEPT !.pc = "wait", !.result = r.result]
    /\ UNCHANGED <<invokeVars, waitVars, toolVars, observerVars, messageVars, validatorVars, bridgeVars, executorVars, connectionVars, ledgerStartVars, ledgerVars, busVars, panelVars, favoritesVars, settingsVars, injectionVars>>

\* executeScript rejects (the tab is gone, the page is not scriptable)
SelectScriptFails ==
    /\ sel.pc = "script"
    /\ sel' = [sel EXCEPT !.pc = "done", !.subscribed = FALSE, !.settled = "rejected"]
    /\ UNCHANGED <<page, invokeVars, waitVars, toolVars, observerVars, messageVars, validatorVars, bridgeVars, executorVars, connectionVars, ledgerStartVars, ledgerVars, busVars, panelVars, favoritesVars, settingsVars, injectionVars>>

\* the mutation observer reports DOM changes to the subscribed handler
DomChangesDetected ==
    /\ sel.subscribed
    /\ ~sel.domChangesDetected
    /\ sel' = [sel EXCEPT !.domChangesDetected = TRUE]
    /\ UNCHANGED <<page, invokeVars, waitVars, toolVars, observerVars, messageVars, validatorVars, bridgeVars, executorVars, connectionVars, ledgerStartVars, ledgerVars, busVars, panelVars, favoritesVars, settingsVars, injectionVars>>

\* the 100 ms timer fires: the result string is returned, with the advisory
\* text when changes were detected; the handler is unsubscribed
SelectFinish ==
    /\ sel.pc = "wait"
    /\ sel' = [sel EXCEPT !.pc = "done", !.subscribed = FALSE,
                          !.advisory = sel.domChangesDetected,
                          !.settled = "resolved"]
    /\ UNCHANGED <<page, invokeVars, waitVars, toolVars, observerVars, messageVars, validatorVars, bridgeVars, executorVars, connectionVars, ledgerStartVars, ledgerVars, busVars, panelVars, favoritesVars, settingsVars, injectionVars>>

DropdownNext ==
    \/ \E identifier \in Identifiers : SelectStart(identifier)
    \/ SelectInfo
    \/ SelectRunScript
    \/ SelectScriptFails
    \/ DomChangesDetected
    \/ SelectFinish

DropdownSpec == DropdownInit /\ [][DropdownNext]_vars

(***************************************************************************)
(* The option wait specification: a dropdown without options, which may    *)
(* load options or leave the document while the call polls it.             *)
(***************************************************************************)
WaitPages == {pg \in Pages : Len(pg.options) = 0 /\ ~pg.hasInput}

LoadedOptions == {os \in OptionLists : Len(os) = 1}

WaitInit ==
    /\ page \in WaitPages
    /\ sel = IdleSelect
    /\ clock = 0
    /\ wait = IdleWait
    /\ dom = NoDom
    /\ tool = IdleTool
    /\ isObservingTab = 0
    /\ injected = {}
    /\ startCalls = <<>>
    /\ storedSettings = DEFAULT_GENERAL_SETTINGS
    /\ settingsCalls = <<>>
    /\ favorites = InitialState
    /\ promptCalls = <<>>
    /\ mayOverlap = FALSE
    /\ panelEvents = <<>>
    /\ effectPending = FALSE
    /\ agentMessages = <<>>
    /\ chatMessages = <<>>
    /\ events = <<>>
    /\ listeners = <<>>
    /\ listenerCalls = <<>>
    /\ arrived = 0
    /\ ops = <<>>
    /\ usedAtStart = 0
    /\ port = "null"
    /\ reconnectTimer = FALSE
    /\ outbox = <<>>
    /\ run = NewRun
    /\ bridge = NewBridge
    /\ nextId = 1
    /\ converted = NothingConverted
    /\ openMessages = {}
    /\ tasks = <<>>
    /\ language = "auto"
    /\ validatorMessage = NoValidatorMessage
    /\ history = <<OriginalSystemMessage>>
    /\ visionOptions = NoVision
    /\ sent = NothingSent
    /\ callbacks = <<>>
    /\ acts = <<>>
    /\ tokenUsage = ResetUsage(0)
    /\ now = 0
    /\ aborted = FALSE
    /\ call = <<>>

\* waitForDropdownOptions(tabId, dropdownMMID, timeout): the first
\* checkOptions run starts at once
WaitStart(timeout) ==
    /\ ~wait.started
    /\ wait' = [wait EXCEPT !.started = TRUE, !.polling = TRUE, !.startTime = clock,
                            !.timeout = timeout]
    /\ UNCHANGED <<clock, page, sel, invokeVars, toolVars, observerVars, messageVars, validatorVars, bridgeVars, executorVars, connectionVars, ledgerStartVars, ledgerVars, busVars, panelVars, favoritesVars, settingsVars, injectionVars>>

\* getEnhancedDropdownInfo settles: the rest of checkOptions runs
WaitPoll ==
    /\ wait.polling
    /\ LET r == CheckOptions(page.present, page.options, clock - wait.startTime, wait.timeout) IN
         wait' = [wait EXCEPT
                    !.polling = FALSE,
                    !.polls = IF @ < 2 THEN @ + 1 ELSE @,
                    !.timer = IF r.again THEN clock + POLL_INTERVAL_MS ELSE -1,
                    !.settles = IF r.settle # "none" THEN @ + 1 ELSE @,
                    !.outcome = IF r.settle # "none" /\ @ = "none" THEN r.settle ELSE @,
                    !.options = IF r.settle = "resolved" /\ wait.outcome = "none"
                                THEN page.options ELSE @,
                    !.settledAt = IF r.settle # "none" /\ wait.outcome = "none"
                                  THEN clock ELSE @]
    /\ UNCHANGED <<clock, page, sel, invokeVars, toolVars, observerVars, messageVars, validatorVars, bridgeVars, executorVars, connectionVars, ledgerStartVars, ledgerVars, busVars, panelVars, favoritesVars, settingsVars, injectionVars>>

\* the 200 ms timer fires: checkOptions runs again
WaitTimerFires ==
    /\ wait.timer >= 0
    /\ clock >= wait.timer
    /\ wait' = [wait EXCEPT !.timer = -1, !.polling = TRUE]
    /\ UNCHANGED <<clock, page, sel, invokeVars, toolVars, observerVars, messageVars, validatorVars, bridgeVars, executorVars, connectionVars, ledgerStartVars, ledgerVars, busVars, panelVars, favoritesVars, settingsVars, injectionVars>>

\* time passes
AdvanceClock ==
    /\ wait.started
    /\ clock < MaxClockMs
    /\ clock' = clock + TickMs
    /\ UNCHANGED <<wait, page, sel, invokeVars, toolVars, observerVars, messageVars, validatorVars, bridgeVars, executorVars, connectionVars, ledgerStartVars, ledgerVars, busVars, panelVars, favoritesVars, settingsVars, injectionVars>>

\* the page loads the dropdown's options
OptionsLoad(options) ==
    /\ wait.started
    /\ page.present
    /\ page.options = <<>>
    /\ page' = [page EXCEPT !.options = options,
                            !.selected = IF page.kind = "select" THEN 1 ELSE 0]
    /\ UNCHANGED <<clock, wait, sel, invokeVars, toolVars, observerVars, messageVars, validatorVars, bridgeVars, executorVars, connectionVars, ledgerStartVars, ledgerVars, busVars, panelVars, favoritesVars, settingsVars, injectionVars>>

\* the dropdown element leaves the document
ElementRemoved ==
    /\ wait.started
    /\ page.present
    /\ page' = NoPage
    /\ UNCHANGED <<clock, wait, sel, invokeVars, toolVars, observerVars, messageVars, validatorVars, bridgeVars, executorVars, connectionVars, ledgerStartVars, ledgerVars, busVars, panelVars, favoritesVars, settingsVars, injectionVars>>

WaitNext ==
    \/ \E timeout \in Timeouts : WaitStart(timeout)
    \/ WaitPoll
    \/ WaitTimerFires
    \/ AdvanceClock
    \/ \E options \in LoadedOptions : OptionsLoad(options)
    \/ ElementRemoved

\* executeScript settles, a timer that is due fires, and time passes
WaitFairness ==
    /\ WF_vars(WaitPoll)
    /\ WF_vars(WaitTimerFires)
    /\ WF_vars(AdvanceClock)

WaitSpec == WaitInit /\ [][WaitNext]_vars /\ WaitFairness

(***************************************************************************)
(* The tool action specification: tool actions, one after the other, on a  *)
(* page with some element map.                                             *)
(***************************************************************************)
ToolsInit ==
    /\ dom \in Doms
    /\ tool = IdleTool
    /\ isObservingTab = 0
    /\ injected = {}
    /\ startCalls = <<>>
    /\ storedSettings = DEFAULT_GENERAL_SETTINGS
    /\ settingsCalls = <<>>
    /\ favorites = InitialState
    /\ promptCalls = <<>>
    /\ mayOverlap = FALSE
    /\ panelEvents = <<>>
    /\ effectPending = FALSE
    /\ agentMessages = <<>>
    /\ chatMessages = <<>>
    /\ events = <<>>
    /\ listeners = <<>>
    /\ listenerCalls = <<>>
    /\ arrived = 0
    /\ ops = <<>>
    /\ usedAtStart = 0
    /\ port = "null"
    /\ reconnectTimer = FALSE
    /\ outbox = <<>>
    /\ run = NewRun
    /\ bridge = NewBridge
    /\ nextId = 1
    /\ converted = NothingConverted
    /\ openMessages = {}
    /\ tasks = <<>>
    /\ language = "auto"
    /\ validatorMessage = NoValidatorMessage
    /\ history = <<OriginalSystemMessage>>
    /\ visionOptions = NoVision
    /\ sent = NothingSent
    /\ callbacks = <<>>
    /\ acts = <<>>
    /\ page = NoPage
    /\ sel = IdleSelect
    /\ clock = 0
    /\ wait = IdleWait
    /\ tokenUsage = ResetUsage(0)
    /\ now = 0
    /\ aborted = FALSE
    /\ call = <<>>

\* handleToolAction(action) up to its first await: the switch, and the
\* argument check of the handler it calls
HandleToolAction(action) ==
    /\ tool.pc \in {"idle", "done"}
    /\ Len(dom.effects) < MaxEffects
    /\ LET t == [IdleTool EXCEPT !.action = action, !.before = dom.effects] IN
         IF action.name \notin ToolNames
         THEN tool' = [t EXCEPT !.pc = "done",
                                !.result = ToolError(action, "Unknown tool action")]
         ELSE IF ArgumentCheck(action) # ""
         THEN tool' = [t EXCEPT !.pc = "done",
                                !.result = ToolError(action, ArgumentCheck(action))]
         ELSE tool' = [t EXCEPT !.pc = "page"]
    /\ UNCHANGED <<dom, invokeVars, dropdownVars, waitVars, observerVars, messageVars, validatorVars, bridgeVars, executorVars, connectionVars, ledgerStartVars, ledgerVars, busVars, panelVars, favoritesVars, settingsVars, injectionVars>>

\* getCurrentPage resolves: the element lookup or the direction check, then
\* the call of the page
GetCurrentPageResolves ==
    /\ tool.pc = "page"
    /\ LET action == tool.action
           byIndex == action.name \in {"dom.click", "dom.fill"}
           elementNode == GetDomElementByIndex(dom.elementMap, action.index) IN
         IF byIndex /\ ElementCheck(elementNode) # ""
         THEN tool' = [tool EXCEPT !.pc = "done", !.lookedUp = TRUE,
                                   !.result = ToolError(action, ElementCheck(elementNode))]
         ELSE IF action.name = "dom.scroll" /\ Direction(action) \notin {"up", "down"}
         THEN tool' = [tool EXCEPT !.pc = "done",
                          !.result = ToolError(action, "Direction must be up or down")]
         ELSE tool' = [tool EXCEPT !.pc = "act", !.lookedUp = byIndex]
    /\ UNCHANGED <<dom, invokeVars, dropdownVars, waitVars, observerVars, messageVars, validatorVars, bridgeVars, executorVars, connectionVars, ledgerStartVars, ledgerVars, busVars, panelVars, favoritesVars, settingsVars, injectionVars>>

\* getCurrentPage rejects: the catch of handleToolAction
GetCurrentPageRejects ==
    /\ tool.pc = "page"
    /\ tool' = [tool EXCEPT !.pc = "done",
                            !.result = ToolError(tool.action, "No current page")]
    /\ UNCHANGED <<dom, invokeVars, dropdownVars, waitVars, observerVars, messageVars, validatorVars, bridgeVars, executorVars, connectionVars, ledgerStartVars, ledgerVars, busVars, panelVars, favoritesVars, settingsVars, injectionVars>>

\* the page clicks, types, scrolls or captures, and the handler returns
PageActs ==
    /\ tool.pc = "act"
    /\ dom' = [dom EXCEPT !.effects = Append(@, PageEffect(tool.action))]
    /\ tool' = [tool EXCEPT !.pc = "done",
                            !.result = ToolSuccess(tool.action, SuccessMessage(tool.action))]
    /\ UNCHANGED <<invokeVars, dropdownVars, waitVars, observerVars, messageVars, validatorVars, bridgeVars, executorVars, connectionVars, ledgerStartVars, ledgerVars, busVars, panelVars, favoritesVars, settingsVars, injectionVars>>

\* the page's call rejects, or takeScreenshot returns nothing: the catch of
\* handleToolAction
PageActFails ==
    /\ tool.pc = "act"
    /\ tool' = [tool EXCEPT !.pc = "done",
                   !.result = ToolError(tool.action,
                                 IF tool.action.name = "dom.screenshot"
                                 THEN "Failed to capture screenshot"
                                 ELSE "Page error")]
    /\ UNCHANGED <<dom, invokeVars, dropdownVars, waitVars, observerVars, messageVars, validatorVars, bridgeVars, executorVars, connectionVars, ledgerStartVars, ledgerVars, busVars, panelVars, favoritesVars, settingsVars, injectionVars>>

ToolsNext ==
    \/ \E action \in ToolActions : HandleToolAction(action)
    \/ GetCurrentPageResolves
    \/ GetCurrentPageRejects
    \/ PageActs
    \/ PageActFails

ToolsSpec == ToolsInit /\ [][ToolsNext]_vars

(***************************************************************************)
(* The observer specification: select actions that may overlap, on any     *)
(* tabs, and the messages of the injected observers.                       *)
(***************************************************************************)
ObserverInit ==
    /\ callbacks = <<>>
    /\ acts = [c \in SelectCalls |-> IdleAct]
    /\ dom = NoDom
    /\ tool = IdleTool
    /\ isObservingTab = 0
    /\ injected = {}
    /\ startCalls = <<>>
    /\ storedSettings = DEFAULT_GENERAL_SETTINGS
    /\ settingsCalls = <<>>
    /\ favorites = InitialState
    /\ promptCalls = <<>>
    /\ mayOverlap = FALSE
    /\ panelEvents = <<>>
    /\ effectPending = FALSE
    /\ agentMessages = <<>>
    /\ chatMessages = <<>>
    /\ events = <<>>
    /\ listeners = <<>>
    /\ listenerCalls = <<>>
    /\ arrived = 0
    /\ ops = <<>>
    /\ usedAtStart = 0
    /\ port = "null"
    /\ reconnectTimer = FALSE
    /\ outbox = <<>>
    /\ run = NewRun
    /\ bridge = NewBridge
    /\ nextId = 1
    /\ converted = NothingConverted
    /\ openMessages = {}
    /\ tasks = <<>>
    /\ language = "auto"
    /\ validatorMessage = NoValidatorMessage
    /\ history = <<OriginalSystemMessage>>
    /\ visionOptions = NoVision
    /\ sent = NothingSent
    /\ page = NoPage
    /\ sel = IdleSelect
    /\ clock = 0
    /\ wait = IdleWait
    /\ tokenUsage = ResetUsage(0)
    /\ now = 0
    /\ aborted = FALSE
    /\ call = <<>>

\* selectEnhancedDropdownOption(tabId, ...) is called
SelectCall(c, tab) ==
    /\ acts[c].pc \in {"idle", "done"}
    /\ acts' = [acts EXCEPT ![c] = [IdleAct EXCEPT !.pc = "info", !.tab = tab]]
    /\ UNCHANGED <<callbacks, invokeVars, dropdownVars, waitVars, toolVars, messageVars, validatorVars, bridgeVars, executorVars, connectionVars, ledgerStartVars, ledgerVars, busVars, panelVars, favoritesVars, settingsVars, injectionVars>>

\* getEnhancedDropdownInfo resolves: the handler is subscribed and the page
\* script is started
SelectInfoResolves(c) ==
    /\ acts[c].pc = "info"
    /\ callbacks' = Subscribe(callbacks, c)
    /\ acts' = [acts EXCEPT ![c].pc = "script"]
    /\ UNCHANGED <<invokeVars, dropdownVars, waitVars, toolVars, messageVars, validatorVars, bridgeVars, executorVars, connectionVars, ledgerStartVars, ledgerVars, busVars, panelVars, favoritesVars, settingsVars, injectionVars>>

\* getEnhancedDropdownInfo rejects: the outer catch rethrows
SelectInfoRejects(c) ==
    /\ acts[c].pc = "info"
    /\ acts' = [acts EXCEPT ![c].pc = "done", ![c].settled = "rejected", ![c].tab = 0]
    /\ UNCHANGED <<callbacks, invokeVars, dropdownVars, waitVars, toolVars, messageVars, validatorVars, bridgeVars, executorVars, connectionVars, ledgerStartVars, ledgerVars, busVars, panelVars, favoritesVars, settingsVars, injectionVars>>

\* executeScript resolves with the script's result; the 100 ms wait starts
SelectScriptResolves(c, outcome) ==
    /\ acts[c].pc = "script"
    /\ acts' = [acts EXCEPT ![c].pc = "wait", ![c].outcome = outcome]
    /\ UNCHANGED <<callbacks, invokeVars, dropdownVars, waitVars, toolVars, messageVars, validatorVars, bridgeVars, executorVars, connectionVars, ledgerStartVars, ledgerVars, busVars, panelVars, favoritesVars, settingsVars, injectionVars>>

\* executeScript rejects: finally unsubscribes, the outer catch rethrows
SelectScriptRejects(c) ==
    /\ acts[c].pc = "script"
    /\ callbacks' = Unsubscribe(callbacks, c)
    /\ acts' = [acts EXCEPT ![c].pc = "done", ![c].settled = "rejected", ![c].tab = 0,
                            ![c].domChangesDetected = FALSE]
    /\ UNCHANGED <<invokeVars, dropdownVars, waitVars, toolVars, messageVars, validatorVars, bridgeVars, executorVars, connectionVars, ledgerStartVars, ledgerVars, busVars, panelVars, favoritesVars, settingsVars, injectionVars>>

\* the 100 ms wait ends: the result, with the advisory text if changes were
\* detected; finally unsubscribes
SelectWaitEnds(c) ==
    /\ acts[c].pc = "wait"
    /\ callbacks' = Unsubscribe(callbacks, c)
    /\ acts' = [acts EXCEPT ![c].pc = "done", ![c].settled = "resolved",
                            ![c].advisory = acts[c].domChangesDetected,
                            ![c].tab = 0, ![c].domChangesDetected = FALSE]
    /\ UNCHANGED <<invokeVars, dropdownVars, waitVars, toolVars, messageVars, validatorVars, bridgeVars, executorVars, connectionVars, ledgerStartVars, ledgerVars, busVars, panelVars, favoritesVars, settingsVars, injectionVars>>

\* the chrome.runtime.onMessage listener receives a message
OnMessage(message) ==
    /\ \E c \in SelectCalls : acts[c].pc \notin {"idle", "done"}
    /\ LET notified == IF ListenerAccepts(message)
                       THEN HandleDOMChanges(callbacks, message.changes) ELSE {} IN
         acts' = [c \in SelectCalls |->
                    [acts[c] EXCEPT
                       !.domChangesDetected = @ \/ c \in notified,
                       !.reported = @ \/ (/\ acts[c].pc \notin {"idle", "done"}
                                          /\ message.type = "DOM_CHANGES_DETECTED"
                                          /\ message.hasTab /\ message.tab = acts[c].tab
                                          /\ message.changes > 0)]]
    /\ UNCHANGED <<callbacks, invokeVars, dropdownVars, waitVars, toolVars, messageVars, validatorVars, bridgeVars, executorVars, connectionVars, ledgerStartVars, ledgerVars, busVars, panelVars, favoritesVars, settingsVars, injectionVars>>

ObserverNext ==
    \/ \E c \in SelectCalls, tab \in Tabs : SelectCall(c, tab)
    \/ \E c \in SelectCalls : SelectInfoResolves(c)
    \/ \E c \in SelectCalls : SelectInfoRejects(c)
    \/ \E c \in SelectCalls, outcome \in ScriptOutcomes : SelectScriptResolves(c, outcome)
    \/ \E c \in SelectCalls : SelectScriptRejects(c)
    \/ \E c \in SelectCalls : SelectWaitEnds(c)
    \/ \E message \in Messages : OnMessage(message)

ObserverSpec == ObserverInit /\ [][ObserverNext]_vars

(***************************************************************************)
(* The planner message specification: a history that grows, then one       *)
(* execute() that builds the planner's messages from it.                   *)
(***************************************************************************)
MessagesInit ==
    /\ history = <<OriginalSystemMessage>>
    /\ visionOptions \in VisionOptions
    /\ sent = NothingSent
    /\ callbacks = <<>>
    /\ acts = <<>>
    /\ dom = NoDom
    /\ tool = IdleTool
    /\ isObservingTab = 0
    /\ injected = {}
    /\ startCalls = <<>>
    /\ storedSettings = DEFAULT_GENERAL_SETTINGS
    /\ settingsCalls = <<>>
    /\ favorites = InitialState
    /\ promptCalls = <<>>
    /\ mayOverlap = FALSE
    /\ panelEvents = <<>>
    /\ effectPending = FALSE
    /\ agentMessages = <<>>
    /\ chatMessages = <<>>
    /\ events = <<>>
    /\ listeners = <<>>
    /\ listenerCalls = <<>>
    /\ arrived = 0
    /\ ops = <<>>
    /\ usedAtStart = 0
    /\ port = "null"
    /\ reconnectTimer = FALSE
    /\ outbox = <<>>
    /\ run = NewRun
    /\ bridge = NewBridge
    /\ nextId = 1
    /\ converted = NothingConverted
    /\ openMessages = {}
    /\ tasks = <<>>
    /\ language = "auto"
    /\ validatorMessage = NoValidatorMessage
    /\ page = NoPage
    /\ sel = IdleSelect
    /\ clock = 0
    /\ wait = IdleWait
    /\ tokenUsage = ResetUsage(0)
    /\ now = 0
    /\ aborted = FALSE
    /\ call = <<>>

\* the message manager adds a message
AddMessage(message) ==
    /\ ~sent.done
    /\ Len(history) < MaxHistory
    /\ history' = Append(history, message)
    /\ UNCHANGED <<visionOptions, sent, invokeVars, dropdownVars, waitVars, toolVars, observerVars, validatorVars, bridgeVars, executorVars, connectionVars, ledgerStartVars, ledgerVars, busVars, panelVars, favoritesVars, settingsVars, injectionVars>>

\* execute() up to its call of invoke
PlannerPreparesMessages ==
    /\ ~sent.done
    /\ sent' = [done |-> TRUE, messages |-> PlannerMessages(history, visionOptions)]
    /\ UNCHANGED <<history, visionOptions, invokeVars, dropdownVars, waitVars, toolVars, observerVars, validatorVars, bridgeVars, executorVars, connectionVars, ledgerStartVars, ledgerVars, busVars, panelVars, favoritesVars, settingsVars, injectionVars>>

MessagesNext ==
    \/ \E message \in HistoryMessages : AddMessage(message)
    \/ PlannerPreparesMessages

MessagesSpec == MessagesInit /\ [][MessagesNext]_vars

(***************************************************************************)
(* The validator prompt specification: a prompt constructed for a task,    *)
(* then follow-up tasks, language changes and system messages in any order.*)
(***************************************************************************)
ValidatorInit ==
    /\ \E task \in TaskTexts : tasks = <<task>>
    /\ language \in Languages
    /\ validatorMessage = NoValidatorMessage
    /\ history = <<OriginalSystemMessage>>
    /\ visionOptions = NoVision
    /\ sent = NothingSent
    /\ callbacks = <<>>
    /\ acts = <<>>
    /\ dom = NoDom
    /\ tool = IdleTool
    /\ isObservingTab = 0
    /\ injected = {}
    /\ startCalls = <<>>
    /\ storedSettings = DEFAULT_GENERAL_SETTINGS
    /\ settingsCalls = <<>>
    /\ favorites = InitialState
    /\ promptCalls = <<>>
    /\ mayOverlap = FALSE
    /\ panelEvents = <<>>
    /\ effectPending = FALSE
    /\ agentMessages = <<>>
    /\ chatMessages = <<>>
    /\ events = <<>>
    /\ listeners = <<>>
    /\ listenerCalls = <<>>
    /\ arrived = 0
    /\ ops = <<>>
    /\ usedAtStart = 0
    /\ port = "null"
    /\ reconnectTimer = FALSE
    /\ outbox = <<>>
    /\ run = NewRun
    /\ bridge = NewBridge
    /\ nextId = 1
    /\ converted = NothingConverted
    /\ openMessages = {}
    /\ page = NoPage
    /\ sel = IdleSelect
    /\ clock = 0
    /\ wait = IdleWait
    /\ tokenUsage = ResetUsage(0)
    /\ now = 0
    /\ aborted = FALSE
    /\ call = <<>>

\* addFollowUpTask(task)
AddFollowUpTask(task) ==
    /\ Len(tasks) < MaxTasks
    /\ tasks' = Append(tasks, task)
    /\ UNCHANGED <<language, validatorMessage, invokeVars, dropdownVars, waitVars, toolVars, observerVars, messageVars, bridgeVars, executorVars, connectionVars, ledgerStartVars, ledgerVars, busVars, panelVars, favoritesVars, settingsVars, injectionVars>>

\* setLanguage(language)
SetLanguage(lang) ==
    /\ language # lang
    /\ language' = lang
    /\ UNCHANGED <<tasks, validatorMessage, invokeVars, dropdownVars, waitVars, toolVars, observerVars, messageVars, bridgeVars, executorVars, connectionVars, ledgerStartVars, ledgerVars, busVars, panelVars, favoritesVars, settingsVars, injectionVars>>

\* getSystemMessage()
GetSystemMessage ==
    /\ validatorMessage' = GetDynamicValidatorPrompt(language, TasksToValidate(tasks))
    /\ UNCHANGED <<tasks, language, invokeVars, dropdownVars, waitVars, toolVars, observerVars, messageVars, bridgeVars, executorVars, connectionVars, ledgerStartVars, ledgerVars, busVars, panelVars, favoritesVars, settingsVars, injectionVars>>

ValidatorNext ==
    \/ \E task \in TaskTexts : AddFollowUpTask(task)
    \/ \E lang \in Languages : SetLanguage(lang)
    \/ GetSystemMessage

ValidatorSpec == ValidatorInit /\ [][ValidatorNext]_vars

(***************************************************************************)
(* The bridge specification: legacy events in any order, and resets.       *)
(***************************************************************************)
BridgeInit ==
    /\ bridge = NewBridge
    /\ nextId = 1
    /\ converted = NothingConverted
    /\ openMessages = {}
    /\ tasks = <<>>
    /\ language = "auto"
    /\ validatorMessage = NoValidatorMessage
    /\ history = <<OriginalSystemMessage>>
    /\ visionOptions = NoVision
    /\ sent = NothingSent
    /\ callbacks = <<>>
    /\ acts = <<>>
    /\ dom = NoDom
    /\ tool = IdleTool
    /\ isObservingTab = 0
    /\ injected = {}
    /\ startCalls = <<>>
    /\ storedSettings = DEFAULT_GENERAL_SETTINGS
    /\ settingsCalls = <<>>
    /\ favorites = InitialState
    /\ promptCalls = <<>>
    /\ mayOverlap = FALSE
    /\ panelEvents = <<>>
    /\ effectPending = FALSE
    /\ agentMessages = <<>>
    /\ chatMessages = <<>>
    /\ events = <<>>
    /\ listeners = <<>>
    /\ listenerCalls = <<>>
    /\ arrived = 0
    /\ ops = <<>>
    /\ usedAtStart = 0
    /\ port = "null"
    /\ reconnectTimer = FALSE
    /\ outbox = <<>>
    /\ run = NewRun
    /\ page = NoPage
    /\ sel = IdleSelect
    /\ clock = 0
    /\ wait = IdleWait
    /\ tokenUsage = ResetUsage(0)
    /\ now = 0
    /\ aborted = FALSE
    /\ call = <<>>

\* convertEvent(legacyEvent)
BridgeConvert(e) ==
    /\ DrawsId(e) => nextId <= MaxIds
    /\ LET r == ConvertEvent(bridge, e, nextId) IN
         /\ bridge' = r.bridge
         /\ converted' = [event |-> e, out |-> r.out]
         /\ openMessages' = OpenAfter(openMessages, r.out)
    /\ nextId' = IF DrawsId(e) THEN nextId + 1 ELSE nextId
    /\ UNCHANGED <<invokeVars, dropdownVars, waitVars, toolVars, observerVars, messageVars, validatorVars, executorVars, connectionVars, ledgerStartVars, ledgerVars, busVars, panelVars, favoritesVars, settingsVars, injectionVars>>

\* reset()
BridgeReset ==
    /\ bridge' = NewBridge
    /\ converted' = NothingConverted
    /\ UNCHANGED <<nextId, openMessages, invokeVars, dropdownVars, waitVars, toolVars, observerVars, messageVars, validatorVars, executorVars, connectionVars, ledgerStartVars, ledgerVars, busVars, panelVars, favoritesVars, settingsVars, injectionVars>>

BridgeNext ==
    \/ \E e \in LegacyEvents : BridgeConvert(e)
    \/ BridgeReset

BridgeSpec == BridgeInit /\ [][BridgeNext]_vars

(***************************************************************************)
(* The executor specification: one task run with the default settings.     *)
(***************************************************************************)
ExecutorInit ==
    /\ run = NewRun
    /\ bridge = NewBridge
    /\ nextId = 1
    /\ converted = NothingConverted
    /\ openMessages = {}
    /\ tasks = <<>>
    /\ language = "auto"
    /\ validatorMessage = NoValidatorMessage
    /\ history = <<OriginalSystemMessage>>
    /\ visionOptions = NoVision
    /\ sent = NothingSent
    /\ callbacks = <<>>
    /\ acts = <<>>
    /\ dom = NoDom
    /\ tool = IdleTool
    /\ isObservingTab = 0
    /\ injected = {}
    /\ startCalls = <<>>
    /\ storedSettings = DEFAULT_GENERAL_SETTINGS
    /\ settingsCalls = <<>>
    /\ favorites = InitialState
    /\ promptCalls = <<>>
    /\ mayOverlap = FALSE
    /\ panelEvents = <<>>
    /\ effectPending = FALSE
    /\ agentMessages = <<>>
    /\ chatMessages = <<>>
    /\ events = <<>>
    /\ listeners = <<>>
    /\ listenerCalls = <<>>
    /\ arrived = 0
    /\ ops = <<>>
    /\ usedAtStart = 0
    /\ port = "null"
    /\ reconnectTimer = FALSE
    /\ outbox = <<>>
    /\ page = NoPage
    /\ sel = IdleSelect
    /\ clock = 0
    /\ wait = IdleWait
    /\ tokenUsage = ResetUsage(0)
    /\ now = 0
    /\ aborted = FALSE
    /\ call = <<>>

\* the task starts: the Planner is invoked on step 0
StartTask ==
    /\ run.state = "INIT"
    /\ run' = [run EXCEPT !.state = "PLANNING", !.last = "start"]
    /\ UNCHANGED <<invokeVars, dropdownVars, waitVars, toolVars, observerVars, messageVars, validatorVars, bridgeVars, connectionVars, ledgerStartVars, ledgerVars, busVars, panelVars, favoritesVars, settingsVars, injectionVars>>

\* a Planner cycle ends with a plan
PlannerCycle(plan) ==
    /\ run.state = "PLANNING"
    /\ run' = [run EXCEPT !.state = AfterPlan(plan), !.hasPlan = TRUE, !.plan = plan,
                          !.plannerCycles = IF @ < 2 THEN @ + 1 ELSE @,
                          !.last = "planner_ok"]
    /\ UNCHANGED <<invokeVars, dropdownVars, waitVars, toolVars, observerVars, messageVars, validatorVars, bridgeVars, connectionVars, ledgerStartVars, ledgerVars, busVars, panelVars, favoritesVars, settingsVars, injectionVars>>

\* a Planner invocation fails (a parse failure that persists)
PlannerFails ==
    /\ run.state = "PLANNING"
    /\ LET r == [run EXCEPT !.failures = FailuresAfterStep(FALSE, @),
                            !.plannerCycles = IF @ < 2 THEN @ + 1 ELSE @,
                            !.plannerFailed = TRUE, !.last = "planner_fail"] IN
         run' = [r EXCEPT !.state = AfterFailure(r, GeneralSettings)]
    /\ UNCHANGED <<invokeVars, dropdownVars, waitVars, toolVars, observerVars, messageVars, validatorVars, bridgeVars, connectionVars, ledgerStartVars, ledgerVars, busVars, panelVars, favoritesVars, settingsVars, injectionVars>>

\* a Navigator step completes without error
NavigatorStepOk(navigatorDone) ==
    /\ run.state = "NAVIGATING"
    /\ LET r == [run EXCEPT !.step = @ + 1, !.navigatorSteps = @ + 1,
                            !.failures = FailuresAfterStep(TRUE, @),
                            !.last = "navigator_ok"] IN
         run' = [r EXCEPT !.state = AfterNavigatorOk(r, navigatorDone, GeneralSettings)]
    /\ UNCHANGED <<invokeVars, dropdownVars, waitVars, toolVars, observerVars, messageVars, validatorVars, bridgeVars, connectionVars, ledgerStartVars, ledgerVars, busVars, panelVars, favoritesVars, settingsVars, injectionVars>>

\* a Navigator step completes with a failure (ElementNotFound,
\* OptionNotFound, DropdownTimeout, SnapshotUnavailable): replanning follows
NavigatorStepFails ==
    /\ run.state = "NAVIGATING"
    /\ LET r == [run EXCEPT !.step = @ + 1, !.navigatorSteps = @ + 1,
                            !.failures = FailuresAfterStep(FALSE, @),
                            !.last = "navigator_fail"] IN
         run' = [r EXCEPT !.state = AfterFailure(r, GeneralSettings)]
    /\ UNCHANGED <<invokeVars, dropdownVars, waitVars, toolVars, observerVars, messageVars, validatorVars, bridgeVars, connectionVars, ledgerStartVars, ledgerVars, busVars, panelVars, favoritesVars, settingsVars, injectionVars>>

\* the Validator runs
ValidatorRuns(isValid) ==
    /\ run.state = "VALIDATING"
    /\ run' = [run EXCEPT !.validatorInvoked = TRUE, !.last = "validator",
                          !.state = IF isValid THEN "DONE"
                                    ELSE IF StepLimitReached(run.step, GeneralSettings) THEN "FAILED"
                                    ELSE "PLANNING"]
    /\ UNCHANGED <<invokeVars, dropdownVars, waitVars, toolVars, observerVars, messageVars, validatorVars, bridgeVars, connectionVars, ledgerStartVars, ledgerVars, busVars, panelVars, favoritesVars, settingsVars, injectionVars>>

\* the cancellation signal
CancelTask ==
    /\ run.state \notin TerminalStates
    /\ run' = [run EXCEPT !.state = "CANCELLED", !.last = "cancel"]
    /\ UNCHANGED <<invokeVars, dropdownVars, waitVars, toolVars, observerVars, messageVars, validatorVars, bridgeVars, connectionVars, ledgerStartVars, ledgerVars, busVars, panelVars, favoritesVars, settingsVars, injectionVars>>

ExecutorNext ==
    \/ StartTask
    \/ \E plan \in PlannerOutputs : PlannerCycle(plan)
    \/ PlannerFails
    \/ \E navigatorDone \in BOOLEAN : NavigatorStepOk(navigatorDone)
    \/ NavigatorStepFails
    \/ \E isValid \in BOOLEAN : ValidatorRuns(isValid)
    \/ CancelTask

ExecutorSpec == ExecutorInit /\ [][ExecutorNext]_vars

(***************************************************************************)
(* The connection specification: the bus is constructed, the port          *)
(* disconnects and is set up again, the user sends messages.               *)
(***************************************************************************)
\* new EventBus(): the constructor has called setupConnection()
ConnectionInit ==
    /\ \E outcome \in ConnectOutcomes : port = SetupConnection("null", outcome)
    /\ reconnectTimer = FALSE
    /\ outbox = <<>>
    /\ callbacks = <<>>
    /\ acts = <<>>
    /\ dom = NoDom
    /\ tool = IdleTool
    /\ isObservingTab = 0
    /\ injected = {}
    /\ startCalls = <<>>
    /\ storedSettings = DEFAULT_GENERAL_SETTINGS
    /\ settingsCalls = <<>>
    /\ favorites = InitialState
    /\ promptCalls = <<>>
    /\ mayOverlap = FALSE
    /\ panelEvents = <<>>
    /\ effectPending = FALSE
    /\ agentMessages = <<>>
    /\ chatMessages = <<>>
    /\ events = <<>>
    /\ listeners = <<>>
    /\ listenerCalls = <<>>
    /\ arrived = 0
    /\ ops = <<>>
    /\ usedAtStart = 0
    /\ run = NewRun
    /\ bridge = NewBridge
    /\ nextId = 1
    /\ converted = NothingConverted
    /\ openMessages = {}
    /\ tasks = <<>>
    /\ language = "auto"
    /\ validatorMessage = NoValidatorMessage
    /\ history = <<OriginalSystemMessage>>
    /\ visionOptions = NoVision
    /\ sent = NothingSent
    /\ page = NoPage
    /\ sel = IdleSelect
    /\ clock = 0
    /\ wait = IdleWait
    /\ tokenUsage = ResetUsage(0)
    /\ now = 0
    /\ aborted = FALSE
    /\ call = <<>>

\* the channel closes (the background goes away, or did not accept)
PortDisconnects ==
    /\ port = "open"
    /\ port' = "disconnected"
    /\ UNCHANGED <<reconnectTimer, outbox, invokeVars, dropdownVars, waitVars, toolVars, observerVars, messageVars, validatorVars, bridgeVars, executorVars, ledgerStartVars, ledgerVars, busVars, panelVars, favoritesVars, settingsVars, injectionVars>>

\* the port's onDisconnect listener
OnDisconnect ==
    /\ port = "disconnected"
    /\ port' = "null"
    /\ reconnectTimer' = TRUE
    /\ UNCHANGED <<outbox, invokeVars, dropdownVars, waitVars, toolVars, observerVars, messageVars, validatorVars, bridgeVars, executorVars, ledgerStartVars, ledgerVars, busVars, panelVars, favoritesVars, settingsVars, injectionVars>>

\* the reconnect timer fires: setupConnection()
ReconnectTimerFires(outcome) ==
    /\ reconnectTimer
    /\ reconnectTimer' = FALSE
    /\ port' = SetupConnection(port, outcome)
    /\ UNCHANGED <<outbox, invokeVars, dropdownVars, waitVars, toolVars, observerVars, messageVars, validatorVars, bridgeVars, executorVars, ledgerStartVars, ledgerVars, busVars, panelVars, favoritesVars, settingsVars, injectionVars>>

\* pushUserText(text): eventBus.sendUserMessage(text)
PushUserText ==
    /\ Len(outbox) < MaxUserMessages
    /\ outbox' = Append(outbox, [port |-> port, via |-> EventBusSendUserMessage(port)])
    /\ UNCHANGED <<port, reconnectTimer, invokeVars, dropdownVars, waitVars, toolVars, observerVars, messageVars, validatorVars, bridgeVars, executorVars, ledgerStartVars, ledgerVars, busVars, panelVars, favoritesVars, settingsVars, injectionVars>>

ConnectionNext ==
    \/ PortDisconnects
    \/ OnDisconnect
    \/ \E outcome \in ConnectOutcomes : ReconnectTimerFires(outcome)
    \/ PushUserText

ConnectionSpec == ConnectionInit /\ [][ConnectionNext]_vars

(***************************************************************************)
(* The ledger specification: overlapping direct calls of the ledger's      *)
(* operations, and the passing of months.                                  *)
(***************************************************************************)
LedgerInit ==
    /\ \E h \in {0, 2, MaxHeadroom} :
         tokenUsage = [used |-> FREE_TIER_LIMIT - h, limit |-> FREE_TIER_LIMIT, resetDate |-> 1]
    /\ usedAtStart = tokenUsage.used
    /\ now = 0
    /\ ops = [o \in LedgerOps |-> IdleOp]
    /\ callbacks = <<>>
    /\ acts = <<>>
    /\ dom = NoDom
    /\ tool = IdleTool
    /\ isObservingTab = 0
    /\ injected = {}
    /\ startCalls = <<>>
    /\ storedSettings = DEFAULT_GENERAL_SETTINGS
    /\ settingsCalls = <<>>
    /\ favorites = InitialState
    /\ promptCalls = <<>>
    /\ mayOverlap = FALSE
    /\ panelEvents = <<>>
    /\ effectPending = FALSE
    /\ agentMessages = <<>>
    /\ chatMessages = <<>>
    /\ events = <<>>
    /\ listeners = <<>>
    /\ listenerCalls = <<>>
    /\ arrived = 0
    /\ port = "null"
    /\ reconnectTimer = FALSE
    /\ outbox = <<>>
    /\ run = NewRun
    /\ bridge = NewBridge
    /\ nextId = 1
    /\ converted = NothingConverted
    /\ openMessages = {}
    /\ tasks = <<>>
    /\ language = "auto"
    /\ validatorMessage = NoValidatorMessage
    /\ history = <<OriginalSystemMessage>>
    /\ visionOptions = NoVision
    /\ sent = NothingSent
    /\ page = NoPage
    /\ sel = IdleSelect
    /\ clock = 0
    /\ wait = IdleWait
    /\ aborted = FALSE
    /\ call = [c \in Calls |-> IdleCall]

\* hasTokens(model), consumeTokens(model, agentType) or getTokenUsage() is
\* called: storage.get is awaited
LedgerCall(o, op, model) ==
    /\ ops[o].pc = "idle"
    /\ op # "resetTokens"
    /\ ops' = [ops EXCEPT ![o] = [IdleOp EXCEPT !.op = op, !.model = model, !.pc = "get"]]
    /\ UNCHANGED <<tokenUsage, now, aborted, call, dropdownVars, waitVars, toolVars, observerVars, messageVars, validatorVars, bridgeVars, executorVars, connectionVars, ledgerStartVars, busVars, panelVars, favoritesVars, settingsVars, injectionVars>>

\* resetTokens(): the default record is built and its write awaited
ResetTokensCall(o) ==
    /\ ops[o].pc = "idle"
    /\ ops' = [ops EXCEPT ![o] = [IdleOp EXCEPT !.op = "resetTokens", !.pc = "default_set",
                                                !.usage = CreateDefaultTokenUsage(now)]]
    /\ UNCHANGED <<tokenUsage, now, aborted, call, dropdownVars, waitVars, toolVars, observerVars, messageVars, validatorVars, bridgeVars, executorVars, connectionVars, ledgerStartVars, busVars, panelVars, favoritesVars, settingsVars, injectionVars>>

\* getTokenUsage: storage.get resolves
LedgerGet(o) ==
    /\ ops[o].pc = "get"
    /\ IF NeedsReset(tokenUsage, now)
       THEN ops' = [ops EXCEPT ![o] = [@ EXCEPT !.pc = "reset_set", !.usage = ResetUsage(now)]]
       ELSE ops' = [ops EXCEPT ![o] = OpAfterGetTokenUsage(@, tokenUsage)]
    /\ UNCHANGED <<tokenUsage, now, aborted, call, dropdownVars, waitVars, toolVars, observerVars, messageVars, validatorVars, bridgeVars, executorVars, connectionVars, ledgerStartVars, busVars, panelVars, favoritesVars, settingsVars, injectionVars>>

\* getTokenUsage: storage.set(resetUsage) resolves
LedgerResetSet(o) ==
    /\ ops[o].pc = "reset_set"
    /\ tokenUsage' = ops[o].usage
    /\ ops' = [ops EXCEPT ![o] = OpAfterGetTokenUsage(@, ops[o].usage)]
    /\ UNCHANGED <<now, aborted, call, dropdownVars, waitVars, toolVars, observerVars, messageVars, validatorVars, bridgeVars, executorVars, connectionVars, ledgerStartVars, busVars, panelVars, favoritesVars, settingsVars, injectionVars>>

\* consumeTokens: storage.set(updatedUsage) resolves, {success: true}
LedgerConsumeSet(o) ==
    /\ ops[o].pc = "consume_set"
    /\ tokenUsage' = ops[o].usage
    /\ ops' = [ops EXCEPT ![o] = [@ EXCEPT !.pc = "done", !.success = TRUE]]
    /\ UNCHANGED <<now, aborted, call, dropdownVars, waitVars, toolVars, observerVars, messageVars, validatorVars, bridgeVars, executorVars, connectionVars, ledgerStartVars, busVars, panelVars, favoritesVars, settingsVars, injectionVars>>

\* resetTokens: storage.set(defaultUsage) resolves
LedgerDefaultSet(o) ==
    /\ ops[o].pc = "default_set"
    /\ tokenUsage' = ops[o].usage
    /\ ops' = [ops EXCEPT ![o] = [@ EXCEPT !.pc = "done", !.success = TRUE]]
    /\ UNCHANGED <<now, aborted, call, dropdownVars, waitVars, toolVars, observerVars, messageVars, validatorVars, bridgeVars, executorVars, connectionVars, ledgerStartVars, busVars, panelVars, favoritesVars, settingsVars, injectionVars>>

\* a month boundary passes
LedgerTick ==
    /\ now < MaxNow
    /\ now' = now + 1
    /\ UNCHANGED <<tokenUsage, ops, aborted, call, dropdownVars, waitVars, toolVars, observerVars, messageVars, validatorVars, bridgeVars, executorVars, connectionVars, ledgerStartVars, busVars, panelVars, favoritesVars, settingsVars, injectionVars>>

LedgerNext ==
    \/ \E o \in LedgerOps, op \in OpNames, model \in ModelNames : LedgerCall(o, op, model)
    \/ \E o \in LedgerOps : ResetTokensCall(o)
    \/ \E o \in LedgerOps : LedgerGet(o)
    \/ \E o \in LedgerOps : LedgerResetSet(o)
    \/ \E o \in LedgerOps : LedgerConsumeSet(o)
    \/ \E o \in LedgerOps : LedgerDefaultSet(o)
    \/ LedgerTick

LedgerSpec == LedgerInit /\ [][LedgerNext]_vars

(***************************************************************************)
(* The buffer specification: events arrive (numbered in arrival order),    *)
(* listeners subscribe and unsubscribe, a full buffer is cleared.          *)
(***************************************************************************)
BufferInit ==
    /\ events = <<>>
    /\ listeners = <<>>
    /\ listenerCalls = <<>>
    /\ arrived = 0
    /\ callbacks = <<>>
    /\ acts = <<>>
    /\ dom = NoDom
    /\ tool = IdleTool
    /\ isObservingTab = 0
    /\ injected = {}
    /\ startCalls = <<>>
    /\ storedSettings = DEFAULT_GENERAL_SETTINGS
    /\ settingsCalls = <<>>
    /\ favorites = InitialState
    /\ promptCalls = <<>>
    /\ mayOverlap = FALSE
    /\ panelEvents = <<>>
    /\ effectPending = FALSE
    /\ agentMessages = <<>>
    /\ chatMessages = <<>>
    /\ ops = <<>>
    /\ usedAtStart = 0
    /\ port = "null"
    /\ reconnectTimer = FALSE
    /\ outbox = <<>>
    /\ run = NewRun
    /\ bridge = NewBridge
    /\ nextId = 1
    /\ converted = NothingConverted
    /\ openMessages = {}
    /\ tasks = <<>>
    /\ language = "auto"
    /\ validatorMessage = NoValidatorMessage
    /\ history = <<OriginalSystemMessage>>
    /\ visionOptions = NoVision
    /\ sent = NothingSent
    /\ page = NoPage
    /\ sel = IdleSelect
    /\ clock = 0
    /\ wait = IdleWait
    /\ tokenUsage = ResetUsage(0)
    /\ now = 0
    /\ aborted = FALSE
    /\ call = <<>>

\* addEvent(event): push, cut, notifyListeners
BusAddEvent ==
    /\ arrived < MaxArrivals
    /\ arrived' = arrived + 1
    /\ events' = AddEvent(events, arrived + 1)
    /\ listenerCalls' = NotifyListeners(listeners, events')
    /\ UNCHANGED <<listeners, invokeVars, dropdownVars, waitVars, toolVars, observerVars, messageVars, validatorVars, bridgeVars, executorVars, connectionVars, ledgerStartVars, ledgerVars, panelVars, favoritesVars, settingsVars, injectionVars>>

\* subscribe(listener)
BusSubscribe(l) ==
    /\ listeners' = SetAdd(listeners, l)
    /\ UNCHANGED <<events, listenerCalls, arrived, invokeVars, dropdownVars, waitVars, toolVars, observerVars, messageVars, validatorVars, bridgeVars, executorVars, connectionVars, ledgerStartVars, ledgerVars, panelVars, favoritesVars, settingsVars, injectionVars>>

\* the function subscribe returned is called
BusUnsubscribe(l) ==
    /\ listeners' = SetDelete(listeners, l)
    /\ UNCHANGED <<events, listenerCalls, arrived, invokeVars, dropdownVars, waitVars, toolVars, observerVars, messageVars, validatorVars, bridgeVars, executorVars, connectionVars, ledgerStartVars, ledgerVars, panelVars, favoritesVars, settingsVars, injectionVars>>

\* clear(), of a buffer that has filled
BusClear ==
    /\ Len(events) = MAX_EVENTS
    /\ events' = <<>>
    /\ listenerCalls' = NotifyListeners(listeners, events')
    /\ UNCHANGED <<listeners, arrived, invokeVars, dropdownVars, waitVars, toolVars, observerVars, messageVars, validatorVars, bridgeVars, executorVars, connectionVars, ledgerStartVars, ledgerVars, panelVars, favoritesVars, settingsVars, injectionVars>>

BufferNext ==
    \/ BusAddEvent
    \/ \E l \in ListenerIds : BusSubscribe(l)
    \/ \E l \in ListenerIds : BusUnsubscribe(l)
    \/ BusClear

BufferSpec == BufferInit /\ [][BufferNext]_vars

(***************************************************************************)
(* The panel specification: AG-UI events arrive at the bus, whose listener *)
(* is the setEvents of useEventBus; React renders the panel after one or   *)
(* more deliveries and runs the effects of AgentChat and ChatPanel.        *)
(***************************************************************************)
PanelInit ==
    /\ events = <<>>
    /\ listeners = <<"setEvents">>
    /\ listenerCalls = <<>>
    /\ arrived = 0
    /\ panelEvents = <<>>
    /\ effectPending = FALSE
    /\ agentMessages = <<>>
    /\ chatMessages = <<>>
    /\ callbacks = <<>>
    /\ acts = <<>>
    /\ dom = NoDom
    /\ tool = IdleTool
    /\ isObservingTab = 0
    /\ injected = {}
    /\ startCalls = <<>>
    /\ storedSettings = DEFAULT_GENERAL_SETTINGS
    /\ settingsCalls = <<>>
    /\ favorites = InitialState
    /\ promptCalls = <<>>
    /\ mayOverlap = FALSE
    /\ ops = <<>>
    /\ usedAtStart = 0
    /\ port = "null"
    /\ reconnectTimer = FALSE
    /\ outbox = <<>>
    /\ run = NewRun
    /\ bridge = NewBridge
    /\ nextId = 1
    /\ converted = NothingConverted
    /\ openMessages = {}
    /\ tasks = <<>>
    /\ language = "auto"
    /\ validatorMessage = NoValidatorMessage
    /\ history = <<OriginalSystemMessage>>
    /\ visionOptions = NoVision
    /\ sent = NothingSent
    /\ page = NoPage
    /\ sel = IdleSelect
    /\ clock = 0
    /\ wait = IdleWait
    /\ tokenUsage = ResetUsage(0)
    /\ now = 0
    /\ aborted = FALSE
    /\ call = <<>>

\* the port delivers an AG-UI event: addEvent, and the listener sets the
\* events state
PanelReceives(event) ==
    /\ arrived < MaxPanelEvents
    /\ event \in NextPanelEvents(events)
    /\ arrived' = arrived + 1
    /\ events' = AddEvent(events, event)
    /\ listenerCalls' = NotifyListeners(listeners, events')
    /\ panelEvents' = listenerCalls'[1].events
    /\ effectPending' = TRUE
    /\ UNCHANGED <<listeners, agentMessages, chatMessages, invokeVars, dropdownVars, waitVars, toolVars, observerVars, messageVars, validatorVars, bridgeVars, executorVars, connectionVars, ledgerStartVars, ledgerVars, favoritesVars, settingsVars, injectionVars>>

\* React renders with the current events state and runs the effects
PanelRenders ==
    /\ effectPending
    /\ effectPending' = FALSE
    /\ agentMessages' = AgentChatEffect(agentMessages, panelEvents)
    /\ chatMessages' = ChatPanelEffect(chatMessages, panelEvents)
    /\ UNCHANGED <<panelEvents, busVars, invokeVars, dropdownVars, waitVars, toolVars, observerVars, messageVars, validatorVars, bridgeVars, executorVars, connectionVars, ledgerStartVars, ledgerVars, favoritesVars, settingsVars, injectionVars>>

PanelNext ==
    \/ \E event \in AllPanelEvents : PanelReceives(event)
    \/ PanelRenders

PanelSpec == PanelInit /\ [][PanelNext]_vars

(***************************************************************************)
(* The favorites specifications: calls of the favorite prompts storage on  *)
(* a store that starts in its initial state.  In FavoritesSpec the calls   *)
(* may overlap, in SequentialSpec each call is awaited before the next.    *)
(***************************************************************************)
FavoritesInit ==
    /\ favorites = InitialState
    /\ promptCalls = [c \in PromptCalls |-> IdlePromptCall]
    /\ mayOverlap = TRUE
    /\ callbacks = <<>>
    /\ acts = <<>>
    /\ dom = NoDom
    /\ tool = IdleTool
    /\ isObservingTab = 0
    /\ injected = {}
    /\ startCalls = <<>>
    /\ storedSettings = DEFAULT_GENERAL_SETTINGS
    /\ settingsCalls = <<>>
    /\ panelEvents = <<>>
    /\ effectPending = FALSE
    /\ agentMessages = <<>>
    /\ chatMessages = <<>>
    /\ events = <<>>
    /\ listeners = <<>>
    /\ listenerCalls = <<>>
    /\ arrived = 0
    /\ ops = <<>>
    /\ usedAtStart = 0
    /\ port = "null"
    /\ reconnectTimer = FALSE
    /\ outbox = <<>>
    /\ run = NewRun
    /\ bridge = NewBridge
    /\ nextId = 1
    /\ converted = NothingConverted
    /\ openMessages = {}
    /\ tasks = <<>>
    /\ language = "auto"
    /\ validatorMessage = NoValidatorMessage
    /\ history = <<OriginalSystemMessage>>
    /\ visionOptions = NoVision
    /\ sent = NothingSent
    /\ page = NoPage
    /\ sel = IdleSelect
    /\ clock = 0
    /\ wait = IdleWait
    /\ tokenUsage = ResetUsage(0)
    /\ now = 0
    /\ aborted = FALSE
    /\ call = <<>>

\* the callers await each call before they make the next
SequentialInit ==
    /\ favorites = InitialState
    /\ promptCalls = [c \in PromptCalls |-> IdlePromptCall]
    /\ mayOverlap = FALSE
    /\ callbacks = <<>>
    /\ acts = <<>>
    /\ dom = NoDom
    /\ tool = IdleTool
    /\ isObservingTab = 0
    /\ injected = {}
    /\ startCalls = <<>>
    /\ storedSettings = DEFAULT_GENERAL_SETTINGS
    /\ settingsCalls = <<>>
    /\ panelEvents = <<>>
    /\ effectPending = FALSE
    /\ agentMessages = <<>>
    /\ chatMessages = <<>>
    /\ events = <<>>
    /\ listeners = <<>>
    /\ listenerCalls = <<>>
    /\ arrived = 0
    /\ ops = <<>>
    /\ usedAtStart = 0
    /\ port = "null"
    /\ reconnectTimer = FALSE
    /\ outbox = <<>>
    /\ run = NewRun
    /\ bridge = NewBridge
    /\ nextId = 1
    /\ converted = NothingConverted
    /\ openMessages = {}
    /\ tasks = <<>>
    /\ language = "auto"
    /\ validatorMessage = NoValidatorMessage
    /\ history = <<OriginalSystemMessage>>
    /\ visionOptions = NoVision
    /\ sent = NothingSent
    /\ page = NoPage
    /\ sel = IdleSelect
    /\ clock = 0
    /\ wait = IdleWait
    /\ tokenUsage = ResetUsage(0)
    /\ now = 0
    /\ aborted = FALSE
    /\ call = <<>>

\* addPrompt(title, content) is called: favoritesStorage.get is awaited
AddPromptCall(c, title, content) ==
    /\ NextPromptCall(promptCalls, c, mayOverlap)
    /\ promptCalls' = [promptCalls EXCEPT ![c] =
          [IdlePromptCall EXCEPT !.pc = "add_get", !.op = "addPrompt", !.title = title, !.content = content]]
    /\ UNCHANGED <<favorites, mayOverlap, invokeVars, dropdownVars, waitVars, toolVars, observerVars, messageVars, validatorVars, bridgeVars, executorVars, connectionVars, ledgerStartVars, ledgerVars, busVars, panelVars, settingsVars, injectionVars>>

\* addPrompt: the get resolves; an existing prompt with the content is returned,
\* otherwise favoritesStorage.set is awaited
AddPromptGet(c) ==
    /\ promptCalls[c].pc = "add_get"
    /\ promptCalls' = [promptCalls EXCEPT ![c] =
          IF FindIndexByContent(favorites.prompts, promptCalls[c].content) > 0
          THEN DonePromptCall(promptCalls[c].content)
          ELSE [@ EXCEPT !.pc = "add_set"]]
    /\ UNCHANGED <<favorites, mayOverlap, invokeVars, dropdownVars, waitVars, toolVars, observerVars, messageVars, validatorVars, bridgeVars, executorVars, connectionVars, ledgerStartVars, ledgerVars, busVars, panelVars, settingsVars, injectionVars>>

\* addPrompt: the set takes effect; the last get is awaited
AddPromptSet(c) ==
    /\ promptCalls[c].pc = "add_set"
    /\ favorites' = AddUpdate(favorites, promptCalls[c].title, promptCalls[c].content)
    /\ promptCalls' = [promptCalls EXCEPT ![c].pc = "add_read"]
    /\ UNCHANGED <<mayOverlap, invokeVars, dropdownVars, waitVars, toolVars, observerVars, messageVars, validatorVars, bridgeVars, executorVars, connectionVars, ledgerStartVars, ledgerVars, busVars, panelVars, settingsVars, injectionVars>>

\* addPrompt: the last get resolves and prompts[0] is returned
AddPromptRead(c) ==
    /\ promptCalls[c].pc = "add_read"
    /\ promptCalls' = [promptCalls EXCEPT ![c] =
          DonePromptCall(IF Len(favorites.prompts) > 0 THEN favorites.prompts[1].content ELSE "undefined")]
    /\ UNCHANGED <<favorites, mayOverlap, invokeVars, dropdownVars, waitVars, toolVars, observerVars, messageVars, validatorVars, bridgeVars, executorVars, connectionVars, ledgerStartVars, ledgerVars, busVars, panelVars, settingsVars, injectionVars>>

\* updatePrompt, updatePromptTitle, removePrompt or reorderPrompts is called:
\* favoritesStorage.set is awaited
UpdaterCall(c, op, id, targetId, title, content) ==
    /\ NextPromptCall(promptCalls, c, mayOverlap)
    /\ promptCalls' = [promptCalls EXCEPT ![c] =
          [IdlePromptCall EXCEPT !.pc = "set", !.op = op, !.id = id,
              !.targetId = IF op = "reorderPrompts" THEN targetId ELSE 0,
              !.title = IF op \in {"updatePrompt", "updatePromptTitle"} THEN title ELSE "",
              !.content = IF op = "updatePrompt" THEN content ELSE ""]]
    /\ UNCHANGED <<favorites, mayOverlap, invokeVars, dropdownVars, waitVars, toolVars, observerVars, messageVars, validatorVars, bridgeVars, executorVars, connectionVars, ledgerStartVars, ledgerVars, busVars, panelVars, settingsVars, injectionVars>>

\* the set of such a call takes effect and the call returns
UpdaterSet(c) ==
    /\ promptCalls[c].pc = "set"
    /\ favorites' = ApplyUpdate(favorites, promptCalls[c])
    /\ promptCalls' = [promptCalls EXCEPT ![c] = DonePromptCall("")]
    /\ UNCHANGED <<mayOverlap, invokeVars, dropdownVars, waitVars, toolVars, observerVars, messageVars, validatorVars, bridgeVars, executorVars, connectionVars, ledgerStartVars, ledgerVars, busVars, panelVars, settingsVars, injectionVars>>

\* getAllPrompts() is called: favoritesStorage.get is awaited
GetAllPromptsCall(c) ==
    /\ NextPromptCall(promptCalls, c, mayOverlap)
    /\ promptCalls' = [promptCalls EXCEPT ![c] = [IdlePromptCall EXCEPT !.pc = "all_get", !.op = "getAllPrompts"]]
    /\ UNCHANGED <<favorites, mayOverlap, invokeVars, dropdownVars, waitVars, toolVars, observerVars, messageVars, validatorVars, bridgeVars, executorVars, connectionVars, ledgerStartVars, ledgerVars, busVars, panelVars, settingsVars, injectionVars>>

\* getAllPrompts: the get resolves; in the initial state the loop over the
\* default prompts starts, otherwise the prompts read are returned
GetAllPromptsGet(c) ==
    /\ promptCalls[c].pc = "all_get"
    /\ promptCalls' = [promptCalls EXCEPT ![c] =
          IF IsInitialState(favorites)
          THEN [@ EXCEPT !.pc = "all_set", !.next = 1]
          ELSE DonePromptCall("")]
    /\ UNCHANGED <<favorites, mayOverlap, invokeVars, dropdownVars, waitVars, toolVars, observerVars, messageVars, validatorVars, bridgeVars, executorVars, connectionVars, ledgerStartVars, ledgerVars, busVars, panelVars, settingsVars, injectionVars>>

\* getAllPrompts: the set of one default prompt takes effect
GetAllPromptsSet(c) ==
    /\ promptCalls[c].pc = "all_set"
    /\ LET prompt == DefaultFavoritePrompts[promptCalls[c].next] IN
         favorites' = AddUpdate(favorites, prompt.title, prompt.content)
    /\ promptCalls' = [promptCalls EXCEPT ![c] =
          IF promptCalls[c].next < Len(DefaultFavoritePrompts)
          THEN [@ EXCEPT !.next = @ + 1]
          ELSE [@ EXCEPT !.pc = "all_read", !.next = 0]]
    /\ UNCHANGED <<mayOverlap, invokeVars, dropdownVars, waitVars, toolVars, observerVars, messageVars, validatorVars, bridgeVars, executorVars, connectionVars, ledgerStartVars, ledgerVars, busVars, panelVars, settingsVars, injectionVars>>

\* getAllPrompts: the last get resolves and the prompts are returned
GetAllPromptsRead(c) ==
    /\ promptCalls[c].pc = "all_read"
    /\ promptCalls' = [promptCalls EXCEPT ![c] = DonePromptCall("")]
    /\ UNCHANGED <<favorites, mayOverlap, invokeVars, dropdownVars, waitVars, toolVars, observerVars, messageVars, validatorVars, bridgeVars, executorVars, connectionVars, ledgerStartVars, ledgerVars, busVars, panelVars, settingsVars, injectionVars>>

FavoritesNext ==
    \/ \E c \in PromptCalls, title \in Titles, content \in Contents : AddPromptCall(c, title, content)
    \/ \E c \in PromptCalls : AddPromptGet(c)
    \/ \E c \in PromptCalls : AddPromptSet(c)
    \/ \E c \in PromptCalls : AddPromptRead(c)
    \/ \E c \in PromptCalls, op \in UpdaterOps, id \in PromptIds, targetId \in PromptIds,
          title \in Titles, content \in Contents : UpdaterCall(c, op, id, targetId, title, content)
    \/ \E c \in PromptCalls : UpdaterSet(c)
    \/ \E c \in PromptCalls : GetAllPromptsCall(c)
    \/ \E c \in PromptCalls : GetAllPromptsGet(c)
    \/ \E c \in PromptCalls : GetAllPromptsSet(c)
    \/ \E c \in PromptCalls : GetAllPromptsRead(c)

FavoritesSpec == FavoritesInit /\ [][FavoritesNext]_vars

SequentialSpec == SequentialInit /\ [][FavoritesNext]_vars

(***************************************************************************)
(* The settings specification: calls of updateSettings, resetToDefaults    *)
(* and markFirstTimeComplete, which may overlap, on a store that starts    *)
(* with the default settings.                                              *)
(***************************************************************************)
SettingsInit ==
    /\ storedSettings = DEFAULT_GENERAL_SETTINGS
    /\ settingsCalls = [c \in SettingsCalls |-> IdleSettingsCall]
    /\ callbacks = <<>>
    /\ acts = <<>>
    /\ dom = NoDom
    /\ tool = IdleTool
    /\ isObservingTab = 0
    /\ injected = {}
    /\ startCalls = <<>>
    /\ favorites = InitialState
    /\ promptCalls = <<>>
    /\ mayOverlap = FALSE
    /\ panelEvents = <<>>
    /\ effectPending = FALSE
    /\ agentMessages = <<>>
    /\ chatMessages = <<>>
    /\ events = <<>>
    /\ listeners = <<>>
    /\ listenerCalls = <<>>
    /\ arrived = 0
    /\ ops = <<>>
    /\ usedAtStart = 0
    /\ port = "null"
    /\ reconnectTimer = FALSE
    /\ outbox = <<>>
    /\ run = NewRun
    /\ bridge = NewBridge
    /\ nextId = 1
    /\ converted = NothingConverted
    /\ openMessages = {}
    /\ tasks = <<>>
    /\ language = "auto"
    /\ validatorMessage = NoValidatorMessage
    /\ history = <<OriginalSystemMessage>>
    /\ visionOptions = NoVision
    /\ sent = NothingSent
    /\ page = NoPage
    /\ sel = IdleSelect
    /\ clock = 0
    /\ wait = IdleWait
    /\ tokenUsage = ResetUsage(0)
    /\ now = 0
    /\ aborted = FALSE
    /\ call = <<>>

\* updateSettings(settings) is called: storage.get is awaited
UpdateSettingsCall(c, settings) ==
    /\ settingsCalls[c].pc \in {"idle", "done"}
    /\ settingsCalls' = [settingsCalls EXCEPT ![c] =
          [IdleSettingsCall EXCEPT !.pc = "update_get", !.settings = settings]]
    /\ UNCHANGED <<storedSettings, invokeVars, dropdownVars, waitVars, toolVars, observerVars, messageVars, validatorVars, bridgeVars, executorVars, connectionVars, ledgerStartVars, ledgerVars, busVars, panelVars, favoritesVars, injectionVars>>

\* updateSettings: the get resolves, the settings are merged and
\* displayHighlights is forced; storage.set is awaited
UpdateSettingsGet(c) ==
    /\ settingsCalls[c].pc = "update_get"
    /\ LET updatedSettings == UpdatedSettings(storedSettings, settingsCalls[c].settings) IN
         settingsCalls' = [settingsCalls EXCEPT ![c] =
            [IdleSettingsCall EXCEPT !.pc = "update_set", !.value = updatedSettings,
                !.forced = updatedSettings # Spread(storedSettings, settingsCalls[c].settings)]]
    /\ UNCHANGED <<storedSettings, invokeVars, dropdownVars, waitVars, toolVars, observerVars, messageVars, validatorVars, bridgeVars, executorVars, connectionVars, ledgerStartVars, ledgerVars, busVars, panelVars, favoritesVars, injectionVars>>

\* updateSettings: the set takes effect
UpdateSettingsSet(c) ==
    /\ settingsCalls[c].pc = "update_set"
    /\ storedSettings' = settingsCalls[c].value
    /\ settingsCalls' = [settingsCalls EXCEPT ![c] =
          [IdleSettingsCall EXCEPT !.pc = "done", !.forced = settingsCalls[c].forced]]
    /\ UNCHANGED <<invokeVars, dropdownVars, waitVars, toolVars, observerVars, messageVars, validatorVars, bridgeVars, executorVars, connectionVars, ledgerStartVars, ledgerVars, busVars, panelVars, favoritesVars, injectionVars>>

\* resetToDefaults() is called: storage.set(DEFAULT_GENERAL_SETTINGS) is awaited
ResetToDefaultsCall(c) ==
    /\ settingsCalls[c].pc \in {"idle", "done"}
    /\ settingsCalls' = [settingsCalls EXCEPT ![c] =
          [IdleSettingsCall EXCEPT !.pc = "reset_set", !.value = DEFAULT_GENERAL_SETTINGS]]
    /\ UNCHANGED <<storedSettings, invokeVars, dropdownVars, waitVars, toolVars, observerVars, messageVars, validatorVars, bridgeVars, executorVars, connectionVars, ledgerStartVars, ledgerVars, busVars, panelVars, favoritesVars, injectionVars>>

\* resetToDefaults: the set takes effect
ResetToDefaultsSet(c) ==
    /\ settingsCalls[c].pc = "reset_set"
    /\ storedSettings' = settingsCalls[c].value
    /\ settingsCalls' = [settingsCalls EXCEPT ![c] = [IdleSettingsCall EXCEPT !.pc = "done"]]
    /\ UNCHANGED <<invokeVars, dropdownVars, waitVars, toolVars, observerVars, messageVars, validatorVars, bridgeVars, executorVars, connectionVars, ledgerStartVars, ledgerVars, busVars, panelVars, favoritesVars, injectionVars>>

\* markFirstTimeComplete() is called: getSettings is awaited
MarkFirstTimeCompleteCall(c) ==
    /\ settingsCalls[c].pc \in {"idle", "done"}
    /\ settingsCalls' = [settingsCalls EXCEPT ![c] = [IdleSettingsCall EXCEPT !.pc = "mark_get"]]
    /\ UNCHANGED <<storedSettings, invokeVars, dropdownVars, waitVars, toolVars, observerVars, messageVars, validatorVars, bridgeVars, executorVars, connectionVars, ledgerStartVars, ledgerVars, busVars, panelVars, favoritesVars, injectionVars>>

\* markFirstTimeComplete: getSettings resolves and updateSettings is called
\* with the settings read and firstTimeUser false
MarkFirstTimeCompleteGet(c) ==
    /\ settingsCalls[c].pc = "mark_get"
    /\ settingsCalls' = [settingsCalls EXCEPT ![c] =
          [IdleSettingsCall EXCEPT !.pc = "update_get",
              !.settings = AllGiven([GetSettings(storedSettings) EXCEPT !.firstTimeUser = FALSE])]]
    /\ UNCHANGED <<storedSettings, invokeVars, dropdownVars, waitVars, toolVars, observerVars, messageVars, validatorVars, bridgeVars, executorVars, connectionVars, ledgerStartVars, ledgerVars, busVars, panelVars, favoritesVars, injectionVars>>

SettingsNext ==
    \/ \E c \in SettingsCalls, settings \in PartialSettings : UpdateSettingsCall(c, settings)
    \/ \E c \in SettingsCalls : UpdateSettingsGet(c)
    \/ \E c \in SettingsCalls : UpdateSettingsSet(c)
    \/ \E c \in SettingsCalls : ResetToDefaultsCall(c)
    \/ \E c \in SettingsCalls : ResetToDefaultsSet(c)
    \/ \E c \in SettingsCalls : MarkFirstTimeCompleteCall(c)
    \/ \E c \in SettingsCalls : MarkFirstTimeCompleteGet(c)

SettingsSpec == SettingsInit /\ [][SettingsNext]_vars

(***************************************************************************)
(* The injection specification: startObserving calls, which may overlap,   *)
(* on any tabs; an injection succeeds or fails.                            *)
(***************************************************************************)
InjectionInit ==
    /\ isObservingTab = 0
    /\ injected = {}
    /\ startCalls = [c \in StartCalls |-> IdleStart]
    /\ callbacks = <<>>
    /\ acts = <<>>
    /\ dom = NoDom
    /\ tool = IdleTool
    /\ storedSettings = DEFAULT_GENERAL_SETTINGS
    /\ settingsCalls = <<>>
    /\ favorites = InitialState
    /\ promptCalls = <<>>
    /\ mayOverlap = FALSE
    /\ panelEvents = <<>>
    /\ effectPending = FALSE
    /\ agentMessages = <<>>
    /\ chatMessages = <<>>
    /\ events = <<>>
    /\ listeners = <<>>
    /\ listenerCalls = <<>>
    /\ arrived = 0
    /\ ops = <<>>
    /\ usedAtStart = 0
    /\ port = "null"
    /\ reconnectTimer = FALSE
    /\ outbox = <<>>
    /\ run = NewRun
    /\ bridge = NewBridge
    /\ nextId = 1
    /\ converted = NothingConverted
    /\ openMessages = {}
    /\ tasks = <<>>
    /\ language = "auto"
    /\ validatorMessage = NoValidatorMessage
    /\ history = <<OriginalSystemMessage>>
    /\ visionOptions = NoVision
    /\ sent = NothingSent
    /\ page = NoPage
    /\ sel = IdleSelect
    /\ clock = 0
    /\ wait = IdleWait
    /\ tokenUsage = ResetUsage(0)
    /\ now = 0
    /\ aborted = FALSE
    /\ call = <<>>

\* startObserving(tabId) is called: it returns at once when isObservingTab is
\* the tab, otherwise it sets isObservingTab and awaits executeScript
StartObserving(c, tabId) ==
    /\ startCalls[c].pc = "idle"
    /\ IF AlreadyObserving(isObservingTab, tabId)
       THEN /\ startCalls' = [startCalls EXCEPT ![c] =
                  [IdleStart EXCEPT !.pc = "done", !.tab = tabId, !.settled = "resolved",
                                    !.observed = tabId \in injected]]
            /\ UNCHANGED isObservingTab
       ELSE /\ startCalls' = [startCalls EXCEPT ![c] = [IdleStart EXCEPT !.pc = "inject", !.tab = tabId]]
            /\ isObservingTab' = tabId
    /\ UNCHANGED <<injected, invokeVars, dropdownVars, waitVars, toolVars, observerVars, messageVars, validatorVars, bridgeVars, executorVars, connectionVars, ledgerStartVars, ledgerVars, busVars, panelVars, favoritesVars, settingsVars>>

\* executeScript resolves: injectMutationObserver has run in the page
InjectionResolves(c) ==
    /\ startCalls[c].pc = "inject"
    /\ injected' = injected \cup {startCalls[c].tab}
    /\ startCalls' = [startCalls EXCEPT ![c].pc = "done", ![c].settled = "resolved", ![c].observed = TRUE]
    /\ UNCHANGED <<isObservingTab, invokeVars, dropdownVars, waitVars, toolVars, observerVars, messageVars, validatorVars, bridgeVars, executorVars, connectionVars, ledgerStartVars, ledgerVars, busVars, panelVars, favoritesVars, settingsVars>>

\* executeScript rejects: isObservingTab is set to null and the error rethrown
InjectionRejects(c) ==
    /\ startCalls[c].pc = "inject"
    /\ isObservingTab' = 0
    /\ startCalls' = [d \in StartCalls |->
          IF d = c THEN [startCalls[c] EXCEPT !.pc = "done", !.settled = "rejected"]
          ELSE IF startCalls[d].pc = "inject" /\ startCalls[d].tab = startCalls[c].tab
               THEN [startCalls[d] EXCEPT !.failedWhilePending = TRUE]
               ELSE startCalls[d]]
    /\ UNCHANGED <<injected, invokeVars, dropdownVars, waitVars, toolVars, observerVars, messageVars, validatorVars, bridgeVars, executorVars, connectionVars, ledgerStartVars, ledgerVars, busVars, panelVars, favoritesVars, settingsVars>>

InjectionNext ==
    \/ \E c \in StartCalls, tabId \in Tabs : StartObserving(c, tabId)
    \/ \E c \in StartCalls : InjectionResolves(c)
    \/ \E c \in StartCalls : InjectionRejects(c)

InjectionSpec == InjectionInit /\ [][InjectionNext]_vars

Next ==
    \/ \E c \in Calls, a \in Agents : ExecuteStart(c, a)
    \/ \E c \in Calls : GetTokenUsageGet(c)
    \/ \E c \in Calls : GetTokenUsageSet(c)
    \/ \E c \in Calls, o \in StructuredOutcomes \cup FreeformOutcomes : ModelResponds(c, o)
    \/ \E c \in Calls, e \in ProviderErrors \cup {AbortError} : ModelRejects(c, e)
    \/ \E c \in Calls : ConsumeTokensSet(c)
    \/ Cancel
    \/ Tick

Spec == Init /\ [][Next]_vars

(***************************************************************************)
(* Properties of invoke and execute.                                       *)
(***************************************************************************)
Done(c) == call[c].pc = "done"

ParseFailureTexts ==
    {StructuredParseError.text, JSONExtractionError.text, ParseResponseError.text}

\* invoke threw because the response did not parse
ParseFailed(c) == call[c].invoke = "threw" /\ call[c].error.text \in ParseFailureTexts

\* C1: an invoke that returned the parsed output called consumeTokens exactly
\* once; an invoke that threw (insufficient tokens, unparsed response, JSON
\* extraction or validation failure, cancellation, provider error) never
\* called it; no invoke calls it twice.
C1_ConsumeOncePerSuccess ==
    \A c \in Calls :
        /\ call[c].consumeCalls <= 1
        /\ call[c].invoke = "returned" => call[c].consumeCalls = 1
        /\ call[c].invoke = "threw" => call[c].consumeCalls = 0

C1_Witness ==
    \E c, d \in Calls :
        /\ call[c].invoke = "returned" /\ call[c].consumeCalls = 1
        /\ ~Structured(call[c])
        /\ ParseFailed(d) /\ call[d].modelCalls = 1

\* C2: when the usage hasTokens read does not cover the cost, invoke throws
\* the insufficient-tokens error and the chat model is never called;
\* otherwise the chat model is called exactly once in that invoke.
C2_ModelCalledOnceIffTokens ==
    \A c \in Calls :
        /\ call[c].modelCalls <= 1
        /\ call[c].hadTokens = "no" => call[c].modelCalls = 0
        /\ call[c].hadTokens = "yes" => call[c].modelCalls = 1
        /\ (Done(c) /\ call[c].hadTokens = "no") =>
               call[c].invoke = "threw" /\ call[c].error = InsufficientTokensError
        /\ Done(c) => call[c].hadTokens # "unknown"

C2_Witness ==
    \E c, d \in Calls :
        /\ Done(c) /\ call[c].hadTokens = "no" /\ call[c].modelCalls = 0
        /\ Done(d) /\ call[d].hadTokens = "yes" /\ call[d].modelCalls = 1

\* C3: a call whose model call was in flight when the signal fired ends with
\* invoke throwing the abort error, no consumeTokens call, no second model
\* call, and execute throwing RequestCancelledError: no {error} result and
\* no STEP_FAIL event.
C3_CancelPropagates ==
    \A c \in Calls :
        call[c].cancelledInFlight =>
            /\ call[c].consumeCalls = 0
            /\ call[c].modelCalls = 1
            /\ Done(c) =>
                 /\ call[c].invoke = "threw"
                 /\ call[c].error = AbortError
                 /\ call[c].result = "RequestCancelledError"
                 /\ call[c].events = <<"STEP_START">>

C3_Witness ==
    \E c, d \in Calls :
        /\ Done(c) /\ call[c].cancelledInFlight /\ Structured(call[c])
        /\ Done(d) /\ call[d].cancelledInFlight /\ ~Structured(call[d])

C6_OneModelCallPerAgent ==
    \A c, d \in Calls :
        (c # d /\ call[c].agent = call[d].agent) =>
            ~(call[c].pc = "model" /\ call[d].pc = "model")

(***************************************************************************)
(* Properties of the dropdown handler.                                     *)
(***************************************************************************)
\* the select action has completed after its script ran on the dropdown
SelectRan == sel.pc = "done" /\ sel.result.kind \notin {"none", "noDropdown"}

\* the options (positions) whose text is the identifier's text
TextMatches == {i \in DOMAIN sel.before.options :
                    sel.before.options[i].text = sel.identifier.text}

AllOptionTexts == [i \in DOMAIN sel.before.options |-> sel.before.options[i].text]

\* C7 as claimed: a select by text, on any dropdown type, whose text matches
\* exactly one option succeeds and leaves the dropdown's value equal to that
\* option's value; when no option matches, the result enumerates the texts
\* of all options.
C7_SelectByText ==
    (SelectRan /\ ~IsNumber(sel.identifier)) =>
        /\ Cardinality(TextMatches) = 1 =>
              /\ sel.settled = "resolved"
              /\ sel.result.kind = "selected"
              /\ \A i \in TextMatches :
                    DropdownValue(page) = sel.before.options[i].value
        /\ TextMatches = {} =>
              /\ sel.result.listed
              /\ sel.result.texts = AllOptionTexts

\* the option the identifier names does not exist
OptionMissing ==
    IF IsNumber(sel.identifier)
    THEN sel.identifier.index >= Len(sel.before.options)
    ELSE /\ TextMatches = {}
         /\ \A i \in DOMAIN sel.before.options : OptionMMID(i) # sel.identifier.text

\* C8 as claimed: selecting an option that does not exist makes the select
\* action fail (it throws: it does not complete with a returned result) and
\* leaves the page as it was: same value, no event dispatched.
C8_MissingOptionFails ==
    (SelectRan /\ OptionMissing) =>
        /\ sel.settled = "rejected"
        /\ page = sel.before

(***************************************************************************)
(* Properties of the option wait.                                          *)
(***************************************************************************)
WaitSettled == wait.settles > 0

\* C9: every waitForDropdownOptions call settles, exactly once: a poll that
\* finds options resolves with them (never with an empty list); a timeout
\* rejection comes only from a poll that found no options after more than
\* `timeout` ms; once settled no poll is running or scheduled; and every
\* started call eventually settles.
C9_WaitSettlesOnce ==
    /\ [](wait.settles <= 1)
    /\ [](wait.outcome = "resolved" => Len(wait.options) > 0)
    /\ [](wait.outcome = "timeout" => wait.settledAt - wait.startTime > wait.timeout)
    /\ [](WaitSettled => (~wait.polling /\ wait.timer = -1 /\ wait.outcome # "none"))
    /\ [][(wait.polling /\ ~wait'.polling /\ page.present /\ Len(page.options) > 0)
             => (wait'.outcome = "resolved" /\ wait'.options = page.options)]_vars
    /\ [][(wait.polling /\ ~wait'.polling /\ page.present /\ page.options = <<>>
             /\ clock - wait.startTime > wait.timeout)
             => wait'.outcome = "timeout"]_vars
    /\ [][WaitSettled => wait' = wait]_vars
    /\ (wait.started ~> WaitSettled)

C9_Witness ==
    /\ wait.outcome = "timeout"
    /\ wait.polls >= 2
    /\ wait.timeout = DEFAULT_TIMEOUT_MS

(***************************************************************************)
(* Properties of the tool actions.                                         *)
(***************************************************************************)
ToolDone == tool.pc = "done"

\* the action is a dom.click or dom.fill whose index is not in the element map
ElementMissing ==
    /\ tool.action.name \in {"dom.click", "dom.fill"}
    /\ tool.action.hasIndex
    /\ tool.action.index \notin dom.elementMap

\* C10: a dom.click or dom.fill whose index is not in the current page's
\* element map never reaches the page's click or input, leaves the page as
\* it was, and ends with status 'error'; the error is the element-not-found
\* error whenever the element was looked up.
C10_MissingElementFails ==
    ElementMissing =>
        /\ tool.pc # "act"
        /\ dom.effects = tool.before
        /\ ToolDone => tool.result.status = "error"
        /\ (ToolDone /\ tool.lookedUp) => tool.result.message = "Element with index not found"

C10_Witness ==
    /\ ToolDone
    /\ ElementMissing
    /\ tool.lookedUp
    /\ tool.action.name = "dom.fill"
    /\ tool.action.index = 0
    /\ dom.elementMap # {}
    /\ tool.result.status = "error"

\* the requested action's name is outside the closed set of tool names
UnknownToolAction ==
    /\ tool.pc # "idle"
    /\ tool.action.name \notin {"dom.click", "dom.fill", "dom.scroll", "dom.screenshot"}

\* C11: an action whose name is outside {dom.click, dom.fill, dom.scroll,
\* dom.screenshot} is answered with an error result without the page being
\* fetched or touched; and handleToolAction never throws: every call that
\* has completed returned a result with status 'success' or 'error' that
\* carries the id of the requested action, and every failure (nothing done
\* to the page) is a result with status 'error'.
C11_UnknownActionsRejected ==
    /\ UnknownToolAction =>
          /\ ToolDone
          /\ tool.result.status = "error"
          /\ tool.result.message = "Unknown tool action"
          /\ dom.effects = tool.before
    /\ ToolDone =>
          /\ ~tool.threw
          /\ tool.result.status \in {"success", "error"}
          /\ tool.result.id = tool.action.id
          /\ (dom.effects = tool.before) => tool.result.status = "error"

C11_Witness ==
    /\ UnknownToolAction
    /\ ToolDone
    /\ tool.action.id = "a2"
    /\ tool.result = [id |-> "a2", status |-> "error", message |-> "Unknown tool action"]
    /\ dom.elementMap # {}


(***************************************************************************)
(* Properties of the observer's subscriptions.                             *)
(***************************************************************************)
ActDone(c) == acts[c].pc = "done"

ActSubscribed(c) == acts[c].pc \in {"script", "wait"}

\* the handlers other than that of call c, in order
OtherHandlers(cbs, c) == SelectSeq(cbs, LAMBDA h : h # c)

\* C12: the change handler of a select action is subscribed only while the
\* action runs: the observer's callbacks are exactly the handlers of the
\* calls that are between their subscribe and their completion, each once;
\* on every exit path the step that completes a call leaves the callbacks
\* as they were but for the call's own handler, which is no longer in them;
\* and when no other call is running, the callbacks after the call are what
\* they were before it (none).
C12_HandlerUnsubscribedOnExit ==
    /\ [](\A c \in SelectCalls :
            ActSubscribed(c) <=> (\E i \in DOMAIN callbacks : callbacks[i] = c))
    /\ [](\A i, j \in DOMAIN callbacks : callbacks[i] = callbacks[j] => i = j)
    /\ [](\A c \in SelectCalls :
            (ActDone(c) /\ \A d \in SelectCalls \ {c} : acts[d].pc \in {"idle", "done"})
                => callbacks = <<>>)
    /\ [][\A c \in SelectCalls :
            (acts[c].pc # "done" /\ acts'[c].pc = "done")
                => callbacks' = OtherHandlers(callbacks, c)]_vars

C12_Witness ==
    /\ ActDone(1)
    /\ acts[1].settled = "resolved"
    /\ acts[1].outcome = "notFound"
    /\ callbacks = <<2>>
    /\ acts[2].pc = "wait"
    /\ acts[2].domChangesDetected

\* C13: the advisory text about new elements is appended to a select
\* action's result only if a DOM change of the action's own tab was reported
\* while the action was running.
C13_AdvisoryOnlyForOwnTab ==
    \A c \in SelectCalls :
        (ActDone(c) /\ acts[c].advisory) => acts[c].reported


\* C14: a call that begins with the cancellation signal already set issues
\* no model call, emits no STEP_OK and ends as RequestCancelled.
C14_CancelledAtStart ==
    \A c \in Calls :
        call[c].startedAborted =>
            /\ call[c].modelCalls = 0
            /\ \A i \in DOMAIN call[c].events : call[c].events[i] # "STEP_OK"
            /\ Done(c) => call[c].result = "RequestCancelledError"


(***************************************************************************)
(* Properties of the planner's messages.                                   *)
(***************************************************************************)
\* the text of a message's content, images left out
MessageText(message) ==
    IF message.isArray THEN TextOfParts(message.parts) ELSE message.text

\* C15: the messages sent are the planner's system message followed by the
\* history without its first message; when vision is enabled but planner
\* vision is not, the last message of the history is sent with its image
\* parts removed (same role, same text) and nothing else differs; the
\* planner's system message is always the first message sent.
C15_PlannerMessages ==
    sent.done =>
        /\ Len(sent.messages) = Len(history)
        /\ sent.messages[1] = PlannerSystemMessage
        /\ \A i \in 2..Len(history) :
              IF RemovesImages(visionOptions) /\ i = Len(history)
              THEN /\ sent.messages[i].role = history[i].role
                   /\ MessageText(sent.messages[i]) = MessageText(history[i])
                   /\ \A j \in DOMAIN sent.messages[i].parts :
                         sent.messages[i].parts[j].type # "image_url"
              ELSE sent.messages[i] = history[i]


(***************************************************************************)
(* Properties of the validator's prompt.                                   *)
(***************************************************************************)
\* the message presents the last of ts as the task to validate and the
\* earlier ones as previous tasks, in order, numbered from 1
PresentsTasks(message, ts) ==
    /\ message.ultimate = ts[Len(ts)]
    /\ Len(message.previous) = Len(ts) - 1
    /\ \A i \in 1..(Len(ts) - 1) : message.previous[i] = [number |-> i, task |-> ts[i]]

\* C16: the validator's tasks only grow at the end (earlier tasks are never
\* removed, rewritten or reordered), and every system message that is built
\* presents the most recently added task as the task to validate and every
\* earlier task as a previous task, in submission order, numbered from 1.
C16_TasksAppendOnly ==
    /\ [][Len(tasks') >= Len(tasks) /\ SubSeq(tasks', 1, Len(tasks)) = tasks]_vars
    /\ [][validatorMessage' # validatorMessage => PresentsTasks(validatorMessage', tasks')]_vars
    /\ [](PresentsTasks(GetDynamicValidatorPrompt(language, TasksToValidate(tasks)), tasks))

C16_Witness ==
    /\ Len(tasks) = MaxTasks
    /\ tasks[1] # tasks[2]
    /\ validatorMessage.built
    /\ validatorMessage.language = "ja"
    /\ validatorMessage.ultimate = tasks[MaxTasks]
    /\ Len(validatorMessage.previous) = MaxTasks - 1


(***************************************************************************)
(* Properties of the event bridge.                                         *)
(***************************************************************************)
\* the final run events among the events the last call returned
FinalRunEvents ==
    {i \in DOMAIN converted.out : converted.out[i].type \in {"RUN_FINISHED", "RUN_ERROR"}}

\* C17: every terminal task event yields exactly one final run event:
\* RUN_FINISHED for TASK_OK, RUN_ERROR for TASK_FAIL and TASK_CANCEL.
C17_TerminalEventYieldsFinalEvent ==
    converted.event.state \in {"TASK_OK", "TASK_FAIL", "TASK_CANCEL"} =>
        /\ Cardinality(FinalRunEvents) = 1
        /\ \A i \in FinalRunEvents :
              converted.out[i].type =
                 IF converted.event.state = "TASK_OK" THEN "RUN_FINISHED" ELSE "RUN_ERROR"


(***************************************************************************)
(* Properties of the task run.                                             *)
(***************************************************************************)
\* C18: the step index only changes by a Navigator step completing, which
\* adds exactly 1 to it, and never exceeds maxSteps; the failure count is 0
\* right after a step that completed without error and never exceeds
\* maxFailures.
C18_StepAndFailureCounters ==
    /\ [](run.step <= GeneralSettings.maxSteps)
    /\ [](run.failures <= GeneralSettings.maxFailures)
    /\ [](run.last = "navigator_ok" => run.failures = 0)
    /\ [][/\ run'.step \in {run.step, run.step + 1}
          /\ (run'.step = run.step + 1) <=> (run'.navigatorSteps = run.navigatorSteps + 1)
          /\ run'.navigatorSteps \in {run.navigatorSteps, run.navigatorSteps + 1}]_vars

C18_Witness ==
    /\ run.step = GeneralSettings.maxSteps
    /\ run.last = "navigator_ok"
    /\ run.plannerFailed
    /\ run.failures = 0
    /\ run.state = "FAILED"

\* C19: once maxFailures consecutive failures have occurred the task is
\* FAILED, and a FAILED task stays FAILED with no further Navigator step.
C19_FailureLimitEndsTask ==
    /\ [](run.failures >= GeneralSettings.maxFailures => run.state = "FAILED")
    /\ [][run.state = "FAILED" => run' = run]_vars

C19_Witness ==
    /\ run.state = "FAILED"
    /\ run.failures = DEFAULT_MAX_FAILURES
    /\ run.step = DEFAULT_MAX_FAILURES
    /\ run.navigatorSteps = DEFAULT_MAX_FAILURES
    /\ ~run.plannerFailed
    /\ run.last = "navigator_fail"

\* C20: a task whose Planner output (of the first cycle) has web_task =
\* false has terminated after that one cycle, with done = true in the
\* output, and without the Navigator or the Validator being invoked.
C20_DirectAnswerTerminates ==
    (run.hasPlan /\ run.plannerCycles = 1 /\ ~run.plan.web_task) =>
        /\ run.state \in {"DONE", "CANCELLED"}
        /\ run.plan.done
        /\ run.navigatorSteps = 0
        /\ ~run.validatorInvoked


\* the last call converted the event of a state from an actor
Converted(c, state, actor) == c.event.state = state /\ c.event.actor = actor

C26_TextMessagesWellBracketed ==
    /\ Cardinality(openMessages) <= 1
    /\ FinalRunEvents # {} => openMessages = {}


(***************************************************************************)
(* Properties of the panel's connection.                                   *)
(***************************************************************************)
\* C22: a user message sent while the port is connected is delivered by
\* port.postMessage, and chrome.runtime.sendMessage is used only after
\* posting on the port has failed.
C22_UserMessageViaPort ==
    \A i \in DOMAIN outbox :
        /\ outbox[i].port = "open" => outbox[i].via = <<"port.postMessage">>
        /\ \A j \in DOMAIN outbox[i].via :
              outbox[i].via[j] = "chrome.runtime.sendMessage"
                 => j > 1 /\ outbox[i].via[j - 1] = "port.postMessage throws"

\* C30: a reconnection attempt is made after every disconnect and after
\* every failed attempt: whenever the bus holds no port, an attempt is
\* pending.
C30_ReconnectAttemptPending ==
    port = "null" => reconnectTimer


(***************************************************************************)
(* Properties of the ledger under overlapping calls.                       *)
(***************************************************************************)
\* the calls that returned the parsed output
ReturnedCalls == {c \in Calls : call[c].pc = "done" /\ call[c].invoke = "returned"}

RECURSIVE SumOfCosts(_)
SumOfCosts(cs) ==
    IF cs = {} THEN 0
    ELSE LET c == CHOOSE x \in cs : TRUE IN Cost(call[c]) + SumOfCosts(cs \ {c})

\* C23: once the calls have completed, with no monthly reset in between
\* (the reset date has not been reached), the used count is its initial
\* value plus the costs of the invocations that returned successfully.
C23_ChargesNeverLost ==
    ((\A c \in Calls : call[c].pc \in {"idle", "done"}) /\ ~NeedsReset(tokenUsage, now) /\ now = 0)
        => tokenUsage.used = usedAtStart + SumOfCosts(ReturnedCalls)

\* C25: the monthly reset writes its record only when the stored reset date
\* has been reached: it never wipes tokens charged after a reset of the
\* same month.
C25_ResetOncePerMonth ==
    [][\A c \in Calls :
          (call[c].pc = "gtu_set" /\ call'[c].pc # "gtu_set")
             => (NeedsReset(tokenUsage, now) \/ tokenUsage.used = 0)]_vars


\* C24: in every state of the ledger the used count is between 0 and the
\* limit, and a consumeTokens call that returns success = false does not
\* increase it.
C24_UsedWithinLimit ==
    /\ [](0 <= tokenUsage.used /\ tokenUsage.used <= tokenUsage.limit)
    /\ [][\A o \in LedgerOps :
            (ops[o].pc # "done" /\ ops'[o].pc = "done"
               /\ ops'[o].op = "consumeTokens" /\ ~ops'[o].success)
                => tokenUsage'.used <= tokenUsage.used]_vars

\* a consumeTokens call was refused after an overlapping one had charged the
\* ledger up to its limit
C24_Witness ==
    \E o, p \in LedgerOps :
        /\ ops[o].op = "consumeTokens" /\ ops[o].pc = "done" /\ ~ops[o].success
        /\ ops[p].op = "consumeTokens" /\ ops[p].pc = "done" /\ ops[p].success
        /\ tokenUsage.used > usedAtStart


\* the STEP_OK and STEP_FAIL events among the events a call emitted
StepEndEvents(c) ==
    {i \in DOMAIN call[c].events : call[c].events[i] \in {"STEP_OK", "STEP_FAIL"}}

\* C27: when execute has completed, the STEP_START it emitted has been
\* followed by exactly one STEP_OK or STEP_FAIL of the same call, on every
\* exit path.
C27_StepStartIsClosed ==
    \A c \in Calls :
        Done(c) =>
            /\ call[c].events[1] = "STEP_START"
            /\ Cardinality(StepEndEvents(c)) = 1


(***************************************************************************)
(* Properties of the event bus.                                            *)
(***************************************************************************)
\* C29: the bus never holds more than 1000 events; it holds the most recent
\* ones (all that arrived since it was last cleared, at most 1000) in
\* arrival order; and an added event calls every subscribed listener exactly
\* once, with the buffer's contents, whether or not another listener throws.
C29_BufferBounded ==
    /\ [](Len(events) <= MAX_EVENTS)
    /\ [](\A i \in DOMAIN events : events[i] = arrived - Len(events) + i)
    /\ [][arrived' = arrived + 1 =>
            /\ Len(events') = IF Len(events) < MAX_EVENTS THEN Len(events) + 1 ELSE MAX_EVENTS
            /\ Len(listenerCalls') = Len(listeners)
            /\ \A i \in DOMAIN listeners :
                  /\ listenerCalls'[i].listener = listeners[i]
                  /\ listenerCalls'[i].events = events']_vars

\* more than 1000 events have arrived, the first two are gone, and a
\* listener was called after one subscribed before it had thrown
C29_Witness ==
    /\ arrived = MAX_EVENTS + 2
    /\ Len(events) = MAX_EVENTS
    /\ events[1] = 3
    /\ Len(listenerCalls) = 2
    /\ listenerCalls[1].threw
    /\ listenerCalls[2].listener = "setEvents"


(***************************************************************************)
(* Properties of the chat panel.                                           *)
(***************************************************************************)
\* the text messages of a stream that are completed and have a content
CompletedMessages(evs) ==
    {id \in StartedMessages(evs) :
        /\ \E i \in DOMAIN evs : evs[i].type = "TEXT_MESSAGE_END" /\ evs[i].id = id
        /\ \E i \in DOMAIN evs : evs[i].type = "TEXT_MESSAGE_CONTENT" /\ evs[i].id = id}

RunErrors(evs) == {i \in DOMAIN evs : evs[i].type = "RUN_ERROR"}

\* AgentChat shows each completed message and each RUN_ERROR once
AgentChatShowsOnce ==
    /\ Cardinality({i \in DOMAIN agentMessages : agentMessages[i].actor = "PLANNER"})
          = Cardinality(CompletedMessages(events))
    /\ Cardinality({i \in DOMAIN agentMessages : agentMessages[i].actor = "SYSTEM"})
          = Cardinality(RunErrors(events))

\* ChatPanel shows each completed message and each RUN_ERROR once
ChatPanelShowsOnce ==
    /\ \A id \in CompletedMessages(events) :
          Cardinality({i \in DOMAIN chatMessages : chatMessages[i].id = id}) = 1
    /\ Cardinality({i \in DOMAIN chatMessages : chatMessages[i].error # ""})
          = Cardinality(RunErrors(events))

\* C28: once the panel has rendered the events it received, each completed
\* text message and each RUN_ERROR is in the chat's message list exactly
\* once, however the deliveries were batched.
C28_EachEventShownOnce ==
    ~effectPending => (AgentChatShowsOnce /\ ChatPanelShowsOnce)


(***************************************************************************)
(* Properties of the favorite prompts storage.                             *)
(***************************************************************************)
\* C31: whatever calls of addPrompt, updatePrompt, updatePromptTitle,
\* removePrompt, reorderPrompts and getAllPrompts have taken effect, the
\* stored prompts have pairwise distinct positive ids, all smaller than
\* nextId.
C31_IdsDistinctBelowNextId ==
    /\ \A i \in DOMAIN favorites.prompts :
          /\ favorites.prompts[i].id \in Nat
          /\ favorites.prompts[i].id > 0
          /\ favorites.prompts[i].id < favorites.nextId
    /\ \A i, j \in DOMAIN favorites.prompts :
          i # j => favorites.prompts[i].id # favorites.prompts[j].id

\* the default prompts were inserted, one was removed and the others were
\* reordered: the ids are renumbered and nextId has gone down
C31_Witness ==
    /\ \A c \in PromptCalls : promptCalls[c].pc = "done"
    /\ Len(favorites.prompts) = Len(DefaultFavoritePrompts) - 1
    /\ favorites.nextId = Len(DefaultFavoritePrompts)
    /\ favorites.prompts[4] = [id |-> 1, title |-> "mail", content |-> "d1"]
    /\ favorites.prompts[1] = [id |-> 4, title |-> "weather", content |-> "d5"]


\* C32: addPrompt never creates a second prompt with the content of a stored
\* prompt, also when addPrompt calls overlap: when its set takes effect no
\* stored prompt has the content, and when its get finds a prompt with the
\* content it returns that prompt and stores nothing.
C32_AddPromptNeverDuplicates ==
    [][\A c \in PromptCalls :
          /\ (promptCalls[c].pc = "add_set" /\ promptCalls'[c].pc = "add_read")
                => FindIndexByContent(favorites.prompts, promptCalls[c].content) = 0
          /\ (promptCalls[c].pc = "add_get" /\ promptCalls'[c].pc = "done")
                => /\ promptCalls'[c].returned = promptCalls[c].content
                   /\ favorites' = favorites]_vars

\* C33: the default prompts are inserted only into a store in its initial
\* state (no prompts, nextId = 1), hence at most once: not after a prompt
\* was added or removed, and not twice when getAllPrompts calls overlap.
C33_DefaultsOnlyIntoInitialState ==
    [][\A c \in PromptCalls :
          (promptCalls[c].pc = "all_set" /\ promptCalls[c].next = 1 /\ promptCalls'[c].next = 2)
             => IsInitialState(favorites)]_vars


(***************************************************************************)
(* Properties of the general settings store.                               *)
(***************************************************************************)
\* C34: whatever calls of updateSettings, resetToDefaults and
\* markFirstTimeComplete have taken effect, in whatever interleaving, the
\* stored settings have displayHighlights true when useVision is true.
C34_VisionImpliesHighlights ==
    storedSettings.useVision => storedSettings.displayHighlights

\* an updateSettings that merged useVision true with displayHighlights
\* false has stored its record, and markFirstTimeComplete has taken effect
C34_Witness ==
    /\ \E c \in SettingsCalls : settingsCalls[c].pc = "done" /\ settingsCalls[c].forced
    /\ storedSettings.useVision
    /\ ~storedSettings.firstTimeUser


(***************************************************************************)
(* Properties of startObserving.                                           *)
(***************************************************************************)
\* C35: a startObserving(tabId) call resolves only if the observer has been
\* injected into the tab; when an injection fails, no call for that tab that
\* was pending at the time resolves, and isObservingTab is not left set to
\* the tab.
C35_ResolvesOnlyIfInjected ==
    /\ [](\A c \in StartCalls :
            startCalls[c].settled = "resolved"
               => startCalls[c].observed /\ ~startCalls[c].failedWhilePending)
    /\ [][\A c \in StartCalls :
            (startCalls[c].pc = "inject" /\ startCalls'[c].settled = "rejected")
               => isObservingTab' # startCalls[c].tab]_vars

====
